---- MODULE Spec2Model ----
(***************************************************************************)
(* A model of SDL_Console (src/SDL_console.cpp): the scrollback store of   *)
(* LogScreen with its scrollbar and prompt, and the cross-thread event     *)
(* dispatcher (ExternalEventWaiter) driven by Console_MainLoop.            *)
(*                                                                         *)
(* Spec       : the owner thread's handlers acting on LogScreen.           *)
(* SpecDisp   : producer threads, the owner loop and shutdown/destroy      *)
(*              acting on the dispatcher.                                  *)
(***************************************************************************)
EXTENDS Integers, Sequences, FiniteSets, TLC

(***************************************************************************)
(* Bounds of the model.                                                    *)
(***************************************************************************)
\* number of create_entry calls (appended output and input lines) in a run
MaxAppend == 4
\* Console_SetScrollback is called with 0 or MaxScrollback
MaxScrollback == 3
\* characters typed into the prompt before a submit
MaxInput == 1
\* input lines submitted in a run
MaxSubmit == 2
\* items (events, tasks, wake-ups) pushed to the dispatcher in a run
MaxItems == 3
\* number of create_entry calls in a run of the scrolling handlers
MaxScrollAppend == 2
\* calls of wait_get / Console_GetLine in a run
MaxGets == 2
\* items pushed to the dispatcher in a run of the console's life
MaxLifeItems == 2
\* length of a text handed to split_entry_text on its own
MaxLen == 4
\* number of entries appended to the store text is selected from
MaxSelAppend == 2
\* calls of Console_Destroy besides the one that follows Console_MainLoop
MaxDestroy == 2
\* characters in the prompt's input in a run of the prompt's editing keys
MaxPromptLen == 2
\* lines submitted in such a run
MaxPromptSubmit == 1
\* clicks on A+ or A- away from the font's original size
MaxFontSteps == 1
\* slots created on the emitter
MaxSlots == 3
\* bytes of a string handed to utf8_strlen, and bytes behind its NUL
MaxBytes == 3
MaxPast == 2

(***************************************************************************)
(* Arithmetic helpers: C integer division truncates toward zero, and       *)
(* std::round rounds half away from zero.                                  *)
(***************************************************************************)
Min(a, b) == IF a < b THEN a ELSE b

Max(a, b) == IF a > b THEN a ELSE b

TruncDiv(a, b) ==
    IF a >= 0 THEN a \div b ELSE -((-a) \div b)

\* round(a / b) for b > 0
RoundDiv(a, b) ==
    IF a >= 0 THEN (2 * a + b) \div (2 * b) ELSE -((2 * (-a) + b) \div (2 * b))

\* static_cast<int> of an infinite float is undefined: the build yields
\* INT_MIN (x86 cvttss2si) or INT_MAX (saturating conversions).
FloatToIntOverflow == {-2147483647 - 1, 2147483647}

\* Prompt::history_idx is an int that the constructor leaves without a value:
\* what a read of it yields before the first assignment is whatever the
\* storage held.  A negative value, 0, and values at and past history.size().
UninitializedInt == {-1, 0, 1, 2}

\* int to size_t: a negative value wraps to 2^64 + i.  SizeWrap stands for
\* 2^64, above every index the model reaches.
SizeWrap == 1073741824

to_size_t(i) == IF i < 0 THEN SizeWrap + i ELSE i

(***************************************************************************)
(* Program state.                                                          *)
(***************************************************************************)
VARIABLES
    \* LogScreen
    entries,        \* std::deque<LogEntry>, front (newest) first
    num_lines,
    max_lines,
    scroll_value,
    viewport,       \* LogScreen::viewport after adjust_viewport: [w, h]
    font,           \* Font: [char_width, line_height, vertical_spacing]
    scrollbar,      \* Scrollbar: page_size, max_range_value, range_value, ...
    prompt,         \* Prompt: prompt_text, history, input, history_idx, cursor
    input_q,        \* InputLineWaiter::input_q
    completed,      \* InputLineWaiter::completed
    inf_cast,       \* what this build's float->int conversion gives for +inf
    \* history of the run (not program state)
    appended,       \* number of create_entry calls so far; the k-th entry has id k
    dangling,       \* a reference to a popped entry has been written through
    crashed,        \* the process died on undefined behaviour
    scen            \* progress through the scenario of scen_after_append

VARIABLES
    \* one call of split_entry_text on its own
    wrap_text,      \* the text handed to it
    wrap_width,     \* widget.viewport.w
    wrap_lines,     \* the entry's lines once the call has returned
    wrap_done       \* the call has returned

wrapVars == <<wrap_text, wrap_width, wrap_lines, wrap_done>>

VARIABLES
    \* LogScreen's text selection
    mouse_motion_start, \* SDL_Point, relative to the viewport; {-1, -1} when unset
    mouse_motion_end,
    depressed,          \* LogScreen::depressed: the left button went down in the text
    clipboard,          \* the text last handed to SDL_SetClipboardText
    \* history of the run (not program state)
    shown               \* the lines the last frame drew: [id, index, y]

selVars == <<mouse_motion_start, mouse_motion_end, depressed, clipboard, shown>>

VARIABLES
    \* one SignalEmitter and the slots of one event type
    slots_,                 \* slots_[event_type]: the slots emit invokes, in order
    disconnected_slots_,    \* disconnected_slots_[event_type]
    sig_undefined,          \* a call on the emitter had undefined behaviour
    \* history of the run (not program state)
    last_call,              \* per slot, the last call made for it, "none" before
    invoked                 \* the slots the last emit invoked, in order

sigVars == <<slots_, disconnected_slots_, sig_undefined, last_call, invoked>>

VARIABLES
    \* one call of utf8_strlen on its own
    utf_str,        \* the bytes of str before its terminating NUL
    utf_i,          \* i
    utf_count,      \* count
    utf_pc,         \* "none" outside the call, "loop" in it, "done" returned
    utf_past        \* a byte past the terminating NUL has been read

utfVars == <<utf_str, utf_i, utf_count, utf_pc, utf_past>>

screenVars == <<entries, num_lines, max_lines, scroll_value, viewport, font,
                scrollbar, prompt, input_q, completed, inf_cast,
                appended, dangling, crashed, scen, wrapVars, selVars,
                sigVars, utfVars>>

VARIABLES
    \* Console_con and its ExternalEventWaiter
    con_state,      \* Console_con::state (atomic): "active", "shutdown", "inactive"
    impl,           \* Console_con::impl is set
    waiter_state,   \* ExternalEventWaiter::state: "active", "shutdown"
    notifier,       \* ExternalEventWaiter::notifier (atomic)
    sdl_q,          \* sdl.queue, front first: ids of the queued events
    api_q,          \* api.queue, front first: ids of the queued tasks
    sdl_mutex,      \* holder of sdl.mutex, or "none"
    api_mutex,      \* holder of api.mutex, or "none"
    owner_pc,       \* where the render thread is in Create / MainLoop / Destroy
    prod,           \* per producer thread: [pc, id, q] of the call it is in
    \* history of the run (not program state)
    next_id,        \* the id the next pushed item gets
    info,           \* per item id: its queue and kind, and the console and waiter
                    \* state its push met when it took the queue's mutex
    accepted_sdl,   \* ids in the order queue.push put them on sdl.queue
    accepted_api,
    removed_sdl,    \* ids in the order pop took them off sdl.queue
    removed_api,
    discarded,      \* ids popped by drain(), which runs nothing
    cycle_log,      \* ids run so far in the current MainLoop iteration
    pending_sdl     \* the events queued when the current iteration started draining

dispVars == <<con_state, impl, waiter_state, notifier, sdl_q, api_q, sdl_mutex,
              api_mutex, owner_pc, prod, next_id, info, accepted_sdl, accepted_api,
              removed_sdl, removed_api, discarded, cycle_log, pending_sdl>>

VARIABLES
    \* the threads that call Console_GetLine / InputLineWaiter::wait_get
    cons,           \* per consumer thread: where it is in the call, "idle" outside
    getline_mutex,  \* holder of Console_con::getline_inproc_mutex, or "none"
    \* history of the run (not program state)
    line_shut,      \* InputLineWaiter::shutdown has been called
    lines_pushed,   \* the lines InputLineWaiter::push queued, in push order
    got,            \* what each finished call returned, in the order they returned
    torn_down       \* impl was released while a thread was inside a call using it

lineVars == <<cons, getline_mutex, line_shut, lines_pushed, got, torn_down>>

vars == <<screenVars, dispVars, lineVars>>

(***************************************************************************)
(* split_entry_text: the wrapped lines of a text, as                       *)
(* [index, start_index, end_index, coord] with both ends inclusive (the    *)
(* view is text.substr(start, end - start + 1)); coord {} is where the     *)
(* line was last drawn, (0, 0) for a line no frame has drawn.              *)
(***************************************************************************)
IsNewline(ch) == ch \in {"\n", "\r"}

IsBlank(ch) == ch \in {" ", "\t"}

RECURSIVE SplitScan(_, _, _, _, _, _, _)
SplitScan(text, char_width, viewport_width, curr_idx, start_idx, delim_idx, segments) ==
    IF curr_idx >= Len(text)
    THEN [start_idx |-> start_idx, segments |-> segments]
    ELSE LET ch == text[curr_idx + 1] IN
         IF IsNewline(ch)
         THEN SplitScan(text, char_width, viewport_width, curr_idx + 1,
                        curr_idx + 1, 0,
                        IF curr_idx > start_idx
                        THEN Append(segments, [start |-> start_idx, end |-> curr_idx])
                        ELSE segments)
         ELSE IF IsBlank(ch)
         THEN SplitScan(text, char_width, viewport_width, curr_idx + 1,
                        start_idx, curr_idx, segments)
         ELSE IF (curr_idx - start_idx + 1) * char_width >= viewport_width
         THEN IF delim_idx # 0
              THEN SplitScan(text, char_width, viewport_width, curr_idx + 1,
                             delim_idx + 1, 0,
                             Append(segments, [start |-> start_idx, end |-> delim_idx]))
              ELSE SplitScan(text, char_width, viewport_width, curr_idx + 1,
                             curr_idx + 1, delim_idx,
                             Append(segments, [start |-> start_idx, end |-> curr_idx]))
         ELSE SplitScan(text, char_width, viewport_width, curr_idx + 1,
                        start_idx, delim_idx, segments)

\* the segments of lines 2487-2523, before they are turned into lines
Segments(text, char_width, viewport_width) ==
    LET r == SplitScan(text, char_width, viewport_width, 0, 0, 0, <<>>)
    IN  IF r.start_idx < Len(text)
        THEN Append(r.segments, [start |-> r.start_idx, end |-> Len(text) - 1])
        ELSE r.segments

RECURSIVE AddLines(_, _)
\* LogEntry::add_line for every segment with end >= start (lines 2525-2530)
AddLines(segments, lines) ==
    IF segments = <<>> THEN lines
    ELSE LET seg == Head(segments) IN
         AddLines(Tail(segments),
                  IF seg.end >= seg.start
                  THEN Append(lines, [index |-> Len(lines),
                                      start_index |-> seg.start,
                                      end_index |-> seg.end,
                                      coord |-> [x |-> 0, y |-> 0]])
                  ELSE lines)

\* the mutant of split_entry_text that numbers every line 0
split_entry_text_unnumbered(text, char_width, viewport_width) ==
    LET ls == AddLines(Segments(text, char_width, viewport_width), <<>>)
    IN  [i \in 1..Len(ls) |-> [ls[i] EXCEPT !.index = 0]]

split_entry_text(text, char_width, viewport_width) ==
    AddLines(Segments(text, char_width, viewport_width), <<>>)

\* LogEntry(type, text): no lines yet, size 0
LogEntry(id, type, text) ==
    [id |-> id, type |-> type, text |-> text, size |-> 0, lines |-> <<>>]

(***************************************************************************)
(* The object graph rooted at LogScreen as one record S, so that a method  *)
(* is an operator from S (and its arguments) to the S it leaves behind.    *)
(* The handlers of LogScreen leave the dispatcher alone.                   *)
(***************************************************************************)
Screen ==
    [entries |-> entries, num_lines |-> num_lines, max_lines |-> max_lines,
     scroll_value |-> scroll_value, viewport |-> viewport, font |-> font,
     scrollbar |-> scrollbar, prompt |-> prompt,
     input_q |-> input_q, completed |-> completed, inf_cast |-> inf_cast,
     dangling |-> dangling, crashed |-> crashed]

ScreenFields(S) ==
    /\ entries' = S.entries
    /\ num_lines' = S.num_lines
    /\ max_lines' = S.max_lines
    /\ scroll_value' = S.scroll_value
    /\ viewport' = S.viewport
    /\ font' = S.font
    /\ scrollbar' = S.scrollbar
    /\ prompt' = S.prompt
    /\ input_q' = S.input_q
    /\ completed' = S.completed
    /\ inf_cast' = S.inf_cast
    /\ dangling' = S.dangling
    /\ crashed' = S.crashed

\* a method of LogScreen that leaves the text selection alone
ScreenIs(S) ==
    /\ ScreenFields(S)
    /\ UNCHANGED <<wrapVars, sigVars, utfVars>>
    /\ UNCHANGED selVars

\* a handler of LogScreen run on its own: the dispatcher and the threads in
\* Console_GetLine are left alone
SetScreen(S) ==
    /\ ScreenIs(S)
    /\ UNCHANGED dispVars
    /\ UNCHANGED lineVars

\* Font::line_height_with_spacing
line_height_with_spacing(f) == f.line_height + f.vertical_spacing

\* LogScreen::rows
rows(S) == TruncDiv(S.viewport.h, line_height_with_spacing(S.font))

\* LogScreen::columns
columns(S) == TruncDiv(S.viewport.w, S.font.char_width)

(***************************************************************************)
(* Scrollbar.  thumb_rect.y is only read by render(), so only the height   *)
(* of the thumb is kept; set_thumb_position computes y locally.            *)
(***************************************************************************)
\* Scrollbar::set_thumb_height
Scrollbar_set_thumb_height(S) ==
    LET sb == S.scrollbar
        d == sb.max_range_value - sb.range_value
        vh == sb.viewport.h
        \* round(page_size / d * viewport.h) converted to int
        \* page_size is rows() at construction, positive: page_size / 0 is +inf
        thumb_size == IF d = 0 THEN S.inf_cast
                      ELSE IF d > 0 THEN RoundDiv(sb.page_size * vh, d)
                      ELSE -RoundDiv(sb.page_size * vh, -d)
    IN  [S EXCEPT !.scrollbar.thumb_h = Min(vh, Max(thumb_size, 10))]

\* Scrollbar::track_position_from_range_value
track_position_from_range_value(sb) ==
    TruncDiv((sb.max_range_value - sb.range_value) * sb.viewport.h,
             sb.max_range_value) + sb.viewport.y

\* Scrollbar::range_value_from_track_position
range_value_from_track_position(sb, y) ==
    LET val == TruncDiv((sb.viewport.h - y) * sb.max_range_value, sb.viewport.h)
    IN  Max(0, Min(val, sb.max_range_value))

\* the LogScreen slot connected to the scrollbar's value_changed (lines 1755-1757)
LogScreen_on_value_changed(S, value) ==
    [S EXCEPT !.scroll_value = value]

\* Scrollbar::set_thumb_position
Scrollbar_set_thumb_position(S, y, ok_to_zero) ==
    LET sb == S.scrollbar
        track_start == sb.viewport.y
        track_end == sb.viewport.y + sb.viewport.h
        thumb_y == Max(track_start, y - TruncDiv(sb.thumb_h, 2))
    IN  IF thumb_y + sb.thumb_h > track_end /\ ok_to_zero
        THEN LogScreen_on_value_changed([S EXCEPT !.scrollbar.range_value = 0], 0)
        ELSE S

\* Scrollbar::set_range
Scrollbar_set_range(S, value) ==
    Scrollbar_set_thumb_height([S EXCEPT !.scrollbar.max_range_value = value])

\* Scrollbar::set_value
Scrollbar_set_value(S, value) ==
    LET ok_to_zero == ~(value > S.scrollbar.range_value)
        S1 == [S EXCEPT !.scrollbar.range_value = value]
    IN  Scrollbar_set_thumb_position(S1, track_position_from_range_value(S1.scrollbar),
                                     ok_to_zero)

\* Scrollbar::set_viewport
Scrollbar_set_viewport(S, new_viewport) ==
    LET S1 == Scrollbar_set_thumb_height([S EXCEPT !.scrollbar.viewport = new_viewport])
    IN  Scrollbar_set_thumb_position(S1, track_position_from_range_value(S1.scrollbar),
                                     TRUE)

\* Scrollbar::on_SDL_MouseButtonDown, for a click inside the scrollbar's viewport
Scrollbar_on_SDL_MouseButtonDown(S, y) ==
    LET S1 == [S EXCEPT !.scrollbar.connected = TRUE, !.scrollbar.depressed = TRUE]
        S2 == Scrollbar_set_thumb_position(S1, y, TRUE)
        v  == range_value_from_track_position(S2.scrollbar, y)
    IN  LogScreen_on_value_changed([S2 EXCEPT !.scrollbar.range_value = v], v)

\* the scrollbar's SDL_MOUSEMOTION slot (lines 1400-1408), once connected
Scrollbar_on_SDL_MouseMotion(S, y) ==
    IF ~S.scrollbar.connected \/ ~S.scrollbar.depressed THEN S
    ELSE LET v  == range_value_from_track_position(S.scrollbar, y)
             S1 == [S EXCEPT !.scrollbar.range_value = v]
             S2 == Scrollbar_set_thumb_position(S1, y, TRUE)
         IN  LogScreen_on_value_changed(S2, S2.scrollbar.range_value)

\* Scrollbar::on_SDL_MouseButtonUp; SignalEmitter::disconnect looks the slot
\* up in disconnected_slots_, where a connected slot is not, so it stays connected
Scrollbar_on_SDL_MouseButtonUp(S) ==
    IF S.scrollbar.depressed THEN [S EXCEPT !.scrollbar.depressed = FALSE] ELSE S


(***************************************************************************)
(* Prompt.  Its wrapped entry and the rebuild flag are read by render()    *)
(* only and are not kept.                                                  *)
(***************************************************************************)
\* *prompt.input: input is the position in history the pointer refers to
prompt_input(S) == S.prompt.history[S.prompt.input]

\* Prompt::add_input
Prompt_add_input(S, str) ==
    LET in == prompt_input(S)
        c  == S.prompt.cursor
        new == IF c = Len(in) THEN in \o str
               ELSE SubSeq(in, 1, c) \o str \o SubSeq(in, c + 1, Len(in))
    IN  [S EXCEPT !.prompt.history[S.prompt.input] = new,
                  !.prompt.cursor = c + Len(str)]

\* Prompt::erase_input
\* an erase_input that tests the length of the input only, not the cursor
Prompt_erase_input_at_home(S) ==
    LET in == prompt_input(S)
        c  == S.prompt.cursor
    IN  IF Len(in) = 0 THEN S
        ELSE [S EXCEPT !.prompt.history[S.prompt.input] =
                            IF Len(in) = c THEN SubSeq(in, 1, Len(in) - 1)
                            ELSE SubSeq(in, 1, c) \o SubSeq(in, c + 2, Len(in)),
                       !.prompt.cursor = c - 1]

Prompt_erase_input(S) ==
    LET in == prompt_input(S)
        c  == S.prompt.cursor
    IN  IF c = 0 \/ Len(in) = 0 THEN S
        ELSE [S EXCEPT !.prompt.history[S.prompt.input] =
                            IF Len(in) = c THEN SubSeq(in, 1, Len(in) - 1)
                            ELSE SubSeq(in, 1, c) \o SubSeq(in, c + 2, Len(in)),
                       !.prompt.cursor = c - 1]

\* Prompt::set_input_from_history.  idx is history_idx as a size_t; input =
\* &history[idx] with idx past the end of the deque is undefined, and the
\* run ends there (crashed).
Prompt_set_input_from_history(S, dir) ==
    LET idx  == to_size_t(S.prompt.history_idx)
        size == Len(S.prompt.history)
        to   == IF dir = "up" THEN idx - 1 ELSE idx + 1
        moves == IF dir = "up" THEN idx > 0 ELSE idx < size - 1
    IN  IF ~moves THEN S
        ELSE IF to >= size
        THEN [S EXCEPT !.prompt.history_idx = to, !.crashed = TRUE]
        ELSE [S EXCEPT !.prompt.history_idx = to,
                       !.prompt.input = to + 1,
                       !.prompt.cursor = Len(S.prompt.history[to + 1])]

(***************************************************************************)
(* LogScreen.                                                              *)
(***************************************************************************)
\* LogScreen::set_scroll_value
LogScreen_set_scroll_value(S, v) ==
    Scrollbar_set_value([S EXCEPT !.scroll_value = v], v)

\* LogScreen::scroll(ScrollDirection)
LogScreen_scroll(S, dir) ==
    LET moved == CASE dir = "up"        -> S.scroll_value + 1
                   [] dir = "down"      -> S.scroll_value - 1
                   [] dir = "page_up"   -> S.scroll_value + TruncDiv(rows(S), 2)
                   [] dir = "page_down" -> S.scroll_value - TruncDiv(rows(S), 2)
        clamped == Min(Max(0, moved), S.num_lines - 1)
    IN  LogScreen_set_scroll_value([S EXCEPT !.scroll_value = clamped], clamped)

\* LogScreen::scroll(int y), the SDL_MOUSEWHEEL slot
LogScreen_scroll_wheel(S, y) ==
    IF y > 0 THEN LogScreen_scroll(S, "up")
    ELSE IF y < 0 THEN LogScreen_scroll(S, "down")
    ELSE S

\* LogScreen::update_entry for the entry at position i of the deque
LogScreen_update_entry(S, i) ==
    LET lines == split_entry_text(S.entries[i].text, S.font.char_width, S.viewport.w)
        S1 == [S EXCEPT !.entries[i].lines = lines,
                        !.entries[i].size = Len(lines),
                        !.num_lines = S.num_lines + Len(lines)]
    IN  Scrollbar_set_range(S1, S1.num_lines + 1)

\* LogScreen::update_entry through a reference to an entry that create_entry
\* has already popped (undefined behaviour): the dead object's storage is
\* still usable and is wrapped as if it were alive, or the process dies.
LogScreen_update_entry_dangling(S, text, dies) ==
    IF dies THEN [S EXCEPT !.crashed = TRUE, !.dangling = TRUE]
    ELSE LET lines == split_entry_text(text, S.font.char_width, S.viewport.w)
             S1 == [S EXCEPT !.num_lines = S.num_lines + Len(lines),
                             !.dangling = TRUE]
         IN  Scrollbar_set_range(S1, S1.num_lines + 1)

\* the mutant of create_entry that chops the newest entry instead of the oldest
create_entry_pop_front(S, id, line_type, text) ==
    LET pushed == <<LogEntry(id, line_type, text)>> \o S.entries
    IN  IF S.num_lines >= S.max_lines
        THEN [S EXCEPT !.num_lines = S.num_lines - pushed[Len(pushed)].size,
                       !.entries = Tail(pushed)]
        ELSE [S EXCEPT !.entries = pushed]

\* LogScreen::create_entry; the returned reference is entries.front()
LogScreen_create_entry(S, id, line_type, text) ==
    LET pushed == <<LogEntry(id, line_type, text)>> \o S.entries
    IN  IF S.num_lines >= S.max_lines
        THEN [S EXCEPT !.num_lines = S.num_lines - pushed[Len(pushed)].size,
                       !.entries = SubSeq(pushed, 1, Len(pushed) - 1)]
        ELSE [S EXCEPT !.entries = pushed]

\* update_entry(entry) on the reference create_entry returned
update_created_entry(S, text, dies) ==
    IF S.entries = <<>>
    THEN LogScreen_update_entry_dangling(S, text, dies)
    ELSE LogScreen_update_entry(S, 1)

\* LogScreen::new_output_line
LogScreen_new_output_line(S, id, text, dies) ==
    update_created_entry(LogScreen_create_entry(S, id, "output", text), text, dies)

\* InputLineWaiter::push, reached through emit_global(new_input_line, prompt.input)
InputLineWaiter_push(S, str) ==
    [S EXCEPT !.input_q = Append(S.input_q, str), !.completed = TRUE]

\* the mutant of new_input_line that leaves the prompt on the submitted line
new_input_line_keeps_input(S, id, text, dies) ==
    LET both == S.prompt.prompt_text \o text
        S1 == LogScreen_create_entry(S, id, "input", both)
        S2 == [S1 EXCEPT !.prompt.history = Append(S1.prompt.history, text)]
        S3 == update_created_entry(S2, both, dies)
    IN  IF S3.crashed THEN S3 ELSE InputLineWaiter_push(S3, prompt_input(S3))

\* LogScreen::new_input_line
LogScreen_new_input_line(S, id, text, dies) ==
    LET both == S.prompt.prompt_text \o text
        S1 == LogScreen_create_entry(S, id, "input", both)
        S2 == [S1 EXCEPT !.prompt.history = Append(S1.prompt.history, text)]
        S3 == update_created_entry(S2, both, dies)
        S4 == InputLineWaiter_push(S3, prompt_input(S3))
        h  == Append(S4.prompt.history, <<>>)
    IN  IF S3.crashed THEN S3
        ELSE [S4 EXCEPT !.prompt.history = h,
                        !.prompt.input = Len(h),
                        !.prompt.history_idx = Len(h) - 1,
                        !.prompt.cursor = 0]

\* the mutant of LogScreen_clear that leaves the scroll offset where it was
LogScreen_clear_keeps_scroll(S) ==
    LET S1 == [S EXCEPT !.entries = <<>>, !.num_lines = 0]
    IN  Scrollbar_set_range(S1, rows(S1))

\* LogScreen::clear
LogScreen_clear(S) ==
    LET S1 == LogScreen_set_scroll_value([S EXCEPT !.entries = <<>>, !.num_lines = 0], 0)
    IN  Scrollbar_set_range(S1, rows(S1))

\* LogScreen::adjust_viewport, from the viewport [y, w, h] just assigned
LogScreen_adjust_viewport(S, vp) ==
    LET margin == 4
        w    == (vp.w - S.font.char_width * 3) - margin * 2
        wfit == TruncDiv(w, S.font.char_width) * S.font.char_width
        h    == vp.h - margin
        lh   == line_height_with_spacing(S.font)
        hfit == TruncDiv(h, lh) * lh
    IN  [S EXCEPT !.viewport = [w |-> wfit, h |-> hfit]]

RECURSIVE update_entries(_, _)
\* for (auto& e : entries) update_entry(e)
update_entries(S, i) ==
    IF i > Len(S.entries) THEN S
    ELSE update_entries(LogScreen_update_entry(S, i), i + 1)

\* the mutant of on_resize that keeps num_lines instead of setting it to 0
LogScreen_on_resize_accumulating(S, new_viewport) ==
    LET S1 == Scrollbar_set_viewport(S, [y |-> new_viewport.y, h |-> new_viewport.h])
        S2 == LogScreen_adjust_viewport(S1, new_viewport)
    IN  update_entries(S2, 1)

\* LogScreen::on_resize
LogScreen_on_resize(S, new_viewport) ==
    LET S1 == Scrollbar_set_viewport(S, [y |-> new_viewport.y, h |-> new_viewport.h])
        S2 == LogScreen_adjust_viewport(S1, new_viewport)
    IN  update_entries([S2 EXCEPT !.num_lines = 0], 1)

\* MainWindow::on_resize, from the SDL_WINDOWEVENT_RESIZED slot (lines 2208-2213):
\* the toolbar keeps the height it was constructed with, font->line_height * 2
MainWindow_on_resize(S, w, h, toolbar_h) ==
    LogScreen_on_resize(S, [y |-> toolbar_h, w |-> w, h |-> h - toolbar_h])

\* LogScreen::on_key_down
LogScreen_on_key_down(S, sym, id, dies) ==
    CASE sym = "TAB"      -> LogScreen_new_input_line(S, id, <<"(", "t", "a", "b", ")">>, dies)
      [] sym = "PAGEUP"   -> LogScreen_scroll(S, "page_up")
      [] sym = "PAGEDOWN" -> LogScreen_scroll(S, "page_down")
      [] sym = "RETURN"   ->
            LET S1 == LogScreen_new_input_line(S, id, prompt_input(S), dies)
            IN  IF S1.crashed THEN S1 ELSE LogScreen_set_scroll_value(S1, 0)
      [] sym \in {"BACKSPACE", "UP", "DOWN", "LEFT", "RIGHT"} ->
            LogScreen_set_scroll_value(S, 0)
      [] OTHER -> S

\* the SDL_TEXTINPUT slots: Prompt's (line 1172), then LogScreen's (lines 1750-1753)
on_text_input(S, str) ==
    [Prompt_add_input(S, str) EXCEPT !.scroll_value = 0]


(***************************************************************************)
(* Inputs of the owner-thread handlers.                                    *)
(***************************************************************************)
\* texts handed to Console_AddLine: empty (no line at all), one line, and
\* one that wraps in a narrow window
Texts == {<<>>, <<"x">>, <<"x", "x", "x", "x", "x">>}

\* renderer output sizes reported on SDL_WINDOWEVENT_RESIZED: the window as
\* created (line 2747) and its minimum size (line 2220)
window_w == 640

window_h == 480

min_window_w == 64

min_window_h == 48

WindowSizes == {[w |-> window_w, h |-> window_h], [w |-> min_window_w, h |-> min_window_h]}

\* mouse y positions, in window coordinates
ClickYs == {24, 228, 455}

MotionYs == {0, 228}

\* Font(..., 8, 12) of line 1000; vertical_spacing = line_height * 0.5
TheFont == [char_width |-> 8, line_height |-> 12, vertical_spacing |-> 6]

\* Toolbar viewport height, font->line_height * 2 (line 2223)
toolbar_h == TheFont.line_height * 2

default_scrollback == 1024

\* in_rect for a point whose x lies inside the scrollbar
in_rect_y(y, r) == y >= r.y /\ y < r.y + r.h

(***************************************************************************)
(* The state Console_Create leaves behind: a 640x480 window, an empty      *)
(* store, the prompt "> " holding one empty history line.                  *)
(***************************************************************************)
InitScreen ==
    /\ entries = <<>>
    /\ num_lines = 0
    /\ max_lines = default_scrollback
    /\ scroll_value = 0
    /\ font = TheFont
    /\ viewport = [w |-> 608, h |-> 450]
    /\ inf_cast \in FloatToIntOverflow
    /\ scrollbar = [page_size |-> 25, max_range_value |-> 25, range_value |-> 0,
                    depressed |-> FALSE, connected |-> FALSE,
                    viewport |-> [y |-> toolbar_h, h |-> window_h - toolbar_h],
                    thumb_h |-> window_h - toolbar_h]
    /\ prompt \in {[prompt_text |-> <<">", " ">>, history |-> <<(<<>>)>>, input |-> 1,
                     history_idx |-> i, cursor |-> 0] : i \in UninitializedInt}
    /\ input_q = <<>>
    /\ completed = FALSE
    /\ appended = 0
    /\ dangling = FALSE
    /\ crashed = FALSE
    /\ scen = -1

(***************************************************************************)
(* The owner thread's handlers on LogScreen.  crashed disables everything. *)
(***************************************************************************)
\* progress of the scenario "scrollback set to MaxScrollback on a new console,
\* then nothing but single-line appends": scen counts the appends, -1 before
\* the scrollback is set and -2 once the run has left the scenario
scen_after_append(S0, text) ==
    IF scen >= 0 /\ Len(split_entry_text(text, S0.font.char_width, S0.viewport.w)) = 1
    THEN scen + 1 ELSE -2

\* the task Console_AddLine queues (lines 2866-2868)
AddLine(text) ==
    /\ ~crashed
    /\ appended < MaxAppend
    /\ \E dies \in BOOLEAN :
          SetScreen(LogScreen_new_output_line(Screen, appended + 1, text, dies))
    /\ appended' = appended + 1
    /\ scen' = scen_after_append(Screen, text)

\* Prompt::on_key_down, the first SDL_KEYDOWN slot
Prompt_on_key_down(S, sym) ==
    CASE sym = "LEFT"  -> IF S.prompt.cursor > 0
                          THEN [S EXCEPT !.prompt.cursor = S.prompt.cursor - 1] ELSE S
      [] sym = "RIGHT" -> IF S.prompt.cursor < Len(prompt_input(S))
                          THEN [S EXCEPT !.prompt.cursor = S.prompt.cursor + 1] ELSE S
      [] sym = "BACKSPACE" -> Prompt_erase_input(S)
      [] sym = "UP"    -> Prompt_set_input_from_history(S, "up")
      [] sym = "DOWN"  -> Prompt_set_input_from_history(S, "down")
      [] sym = "HOME"  -> [S EXCEPT !.prompt.cursor = 0]
      [] sym = "END"   -> [S EXCEPT !.prompt.cursor = Len(prompt_input(S))]
      [] OTHER -> S

\* SDL_KEYDOWN: Prompt's slot, then LogScreen's
KeyDown(sym) ==
    /\ ~crashed
    /\ sym \in {"RETURN", "TAB"} => appended < MaxAppend /\ Len(input_q) < MaxSubmit
    /\ \E dies \in BOOLEAN :
          SetScreen(LogScreen_on_key_down(Prompt_on_key_down(Screen, sym), sym,
                                          appended + 1, dies))
    /\ appended' = IF sym \in {"RETURN", "TAB"} THEN appended + 1 ELSE appended
    /\ scen' = IF sym \in {"RETURN", "TAB"} THEN -2 ELSE scen

\* SDL_TEXTINPUT
TextInput(str) ==
    /\ ~crashed
    /\ Len(prompt_input(Screen)) < MaxInput
    /\ SetScreen(on_text_input(Screen, str))
    /\ UNCHANGED <<appended, scen>>

\* SDL_MOUSEWHEEL
MouseWheel(y) ==
    /\ ~crashed
    /\ SetScreen(LogScreen_scroll_wheel(Screen, y))
    /\ UNCHANGED <<appended, scen>>

\* the task Console_Clear queues (lines 2897-2899)
Clear ==
    /\ ~crashed
    /\ SetScreen(LogScreen_clear(Screen))
    /\ UNCHANGED appended
    /\ scen' = -2

\* the task Console_SetScrollback queues (lines 2938-2940)
SetScrollback(lines) ==
    /\ ~crashed
    /\ SetScreen([Screen EXCEPT !.max_lines = lines])
    /\ UNCHANGED appended
    /\ scen' = IF scen = -1 /\ appended = 0 /\ lines = MaxScrollback THEN 0 ELSE -2

\* SDL_WINDOWEVENT_RESIZED with renderer output size w x h
WindowResized(w, h) ==
    /\ ~crashed
    /\ SetScreen(MainWindow_on_resize(Screen, w, h, toolbar_h))
    /\ UNCHANGED appended
    /\ scen' = -2

\* SDL_MOUSEBUTTONDOWN at (x, y), x over the scrollbar
ScrollbarMouseDown(y) ==
    /\ ~crashed
    /\ SetScreen(IF in_rect_y(y, scrollbar.viewport)
                 THEN Scrollbar_on_SDL_MouseButtonDown(Screen, y)
                 ELSE Screen)
    /\ UNCHANGED <<appended, scen>>

\* SDL_MOUSEMOTION
ScrollbarMouseMotion(y) ==
    /\ ~crashed
    /\ SetScreen(Scrollbar_on_SDL_MouseMotion(Screen, y))
    /\ UNCHANGED <<appended, scen>>

\* SDL_MOUSEBUTTONUP
ScrollbarMouseUp ==
    /\ ~crashed
    /\ SetScreen(Scrollbar_on_SDL_MouseButtonUp(Screen))
    /\ UNCHANGED <<appended, scen>>

\* the handlers that change the scrollback store
NextScreen ==
    \/ \E text \in Texts : AddLine(text)
    \/ KeyDown("RETURN")
    \/ Clear
    \/ \E lines \in {0, MaxScrollback} : SetScrollback(lines)
    \/ \E size \in WindowSizes : WindowResized(size.w, size.h)

\* the handlers that move the scroll position, over a store of a few entries
NextScroll ==
    \/ \E text \in Texts : appended < MaxScrollAppend /\ AddLine(text)
    \/ \E sym \in {"PAGEUP", "PAGEDOWN"} : KeyDown(sym)
    \/ \E y \in {-1, 1} : MouseWheel(y)
    \/ TextInput(<<"x">>)
    \/ Clear
    \/ \E size \in WindowSizes : WindowResized(size.w, size.h)
    \/ \E y \in ClickYs : ScrollbarMouseDown(y)
    \/ \E y \in MotionYs : ScrollbarMouseMotion(y)
    \/ ScrollbarMouseUp

(***************************************************************************)
(* The font size buttons A+ and A- of the toolbar.                         *)
(***************************************************************************)
\* Font::change_size: scale_factor = (float)(char_width + delta) /
\* orig_char_width, then char_width and line_height are the original ones
\* times scale_factor, cut to int.  The original width is 8 and char_width
\* stays even, so scale_factor is a multiple of 1/4 and the float
\* arithmetic is exact.
Font_change_size(f, delta) ==
    [f EXCEPT !.char_width = TruncDiv(TheFont.char_width * (f.char_width + delta),
                                      TheFont.char_width),
              !.line_height = TruncDiv(TheFont.line_height * (f.char_width + delta),
                                       TheFont.char_width)]

\* Font::incr_size / Font::decr_size with size_delta = 2; the slots of
\* font_size_changed (Button, Toolbar) size the toolbar's buttons
Font_incr_size(S) == [S EXCEPT !.font = Font_change_size(S.font, 2)]

Font_decr_size(S) == [S EXCEPT !.font = Font_change_size(S.font, -2)]

\* a click on A+ (lines 2782-2785) or on A- (lines 2787-2790)
FontSizeClicked(up) ==
    /\ ~crashed
    /\ LET S == IF up THEN Font_incr_size(Screen) ELSE Font_decr_size(Screen)
       IN  /\ S.font.char_width >= TheFont.char_width - 2 * MaxFontSteps
           /\ S.font.char_width <= TheFont.char_width + 2 * MaxFontSteps
           /\ SetScreen(S)
    /\ UNCHANGED <<appended, scen>>

\* appends, window resizes and font size changes
NextFont ==
    \/ \E text \in Texts : AddLine(text)
    \/ \E size \in WindowSizes : WindowResized(size.w, size.h)
    \/ \E up \in BOOLEAN : FontSizeClicked(up)

(***************************************************************************)
(* The prompt's line editor: typing, pasting, the editing and history      *)
(* keys, and the submit.                                                   *)
(***************************************************************************)
\* LogScreen::add_prompt_input_from_clipboard, str the clipboard's text
LogScreen_add_prompt_input_from_clipboard(S, str) ==
    IF str # <<>> THEN Prompt_add_input(S, str) ELSE S

\* the keys of Prompt::on_key_down
PromptKeys == {"BACKSPACE", "UP", "DOWN", "LEFT", "RIGHT", "HOME", "END"}


\* what the clipboard holds when Paste is clicked
PasteTexts == {<<>>, <<"x", "x">>}

\* SDL_TEXTINPUT with room left in the input
PromptTextInput(str) ==
    /\ ~crashed
    /\ Len(prompt_input(Screen)) + Len(str) <= MaxPromptLen
    /\ SetScreen(on_text_input(Screen, str))
    /\ UNCHANGED <<appended, scen>>

\* the Paste button (lines 2776-2779) or Ctrl-V
Paste(str) ==
    /\ ~crashed
    /\ Len(prompt_input(Screen)) + Len(str) <= MaxPromptLen
    /\ SetScreen(LogScreen_add_prompt_input_from_clipboard(Screen, str))
    /\ UNCHANGED <<appended, scen>>

NextPrompt ==
    \/ PromptTextInput(<<"x">>)
    \/ \E str \in PasteTexts : Paste(str)
    \/ \E sym \in PromptKeys : KeyDown(sym)
    \/ Len(input_q) < MaxPromptSubmit /\ KeyDown("RETURN")

(***************************************************************************)
(* The text selection of LogScreen: its mouse handlers, a frame drawn by   *)
(* render_lines, get_highlighted_rects and copy_to_clipboard.              *)
(***************************************************************************)
\* snap_to_min: floor(value / grid_size) * grid_size
snap_to_min(value, grid_size) == (value \div grid_size) * grid_size

\* the mutant of snap_to_max that rounds down
snap_to_max_floor(value, grid_size) == (value \div grid_size) * grid_size

\* snap_to_max: ceil(value / grid_size) * grid_size
snap_to_max(value, grid_size) == (0 - ((0 - value) \div grid_size)) * grid_size

\* LogScreen::viewport.x and .y after adjust_viewport: viewport_offset, the
\* corner below the toolbar, plus the margin
viewport_origin == [x |-> 4, y |-> toolbar_h + 4]

\* in_rect(x, y, viewport) for LogScreen's viewport
in_viewport(S, p) ==
    /\ p.x >= viewport_origin.x /\ p.x < viewport_origin.x + S.viewport.w
    /\ p.y >= viewport_origin.y /\ p.y < viewport_origin.y + S.viewport.h

\* LogScreen::translate_coord
translate_coord(p) == [x |-> p.x - viewport_origin.x, y |-> p.y - viewport_origin.y]

\* the selection fields of LogScreen as one record
Selection ==
    [mouse_motion_start |-> mouse_motion_start, mouse_motion_end |-> mouse_motion_end,
     depressed |-> depressed]

\* LogScreen::on_mouse_button_down, for the left button
LogScreen_on_mouse_button_down(S, sel, p) ==
    IF ~in_viewport(S, p) THEN sel
    ELSE [mouse_motion_start |-> translate_coord(p),
          mouse_motion_end |-> [x |-> -1, y |-> -1],
          depressed |-> TRUE]

\* LogScreen::on_mouse_button_up
LogScreen_on_mouse_button_up(S, sel, p) ==
    IF ~in_viewport(S, p) THEN sel ELSE [sel EXCEPT !.depressed = FALSE]

\* LogScreen's SDL_MOUSEMOTION slot
LogScreen_on_mouse_motion(S, sel, p) ==
    IF in_viewport(S, p) /\ sel.depressed
    THEN [sel EXCEPT !.mouse_motion_end = translate_coord(p)]
    ELSE sel

\* LogScreen::get_highlighted_rects, front rect first
get_highlighted_rects(S, sel) ==
    LET char_width == S.font.char_width
        line_height == line_height_with_spacing(S.font)
        selection_start == sel.mouse_motion_start
        selection_end == sel.mouse_motion_end
        \* std::minmax on y: the leftmost of the smallest, the rightmost of the greatest
        top_point == IF selection_end.y < selection_start.y
                     THEN selection_end ELSE selection_start
        bottom_point == IF selection_end.y < selection_start.y
                        THEN selection_start ELSE selection_end
        top == snap_to_min(top_point.y, line_height)
        bottom == snap_to_max(bottom_point.y, line_height)
        is_single_row == (bottom_point.y - top_point.y) <= line_height
        left == IF is_single_row
                THEN snap_to_min(Min(selection_start.x, selection_end.x), char_width)
                ELSE snap_to_min(top_point.x, char_width)
        right == IF is_single_row
                 THEN snap_to_max(Max(selection_start.x, selection_end.x), char_width)
                 ELSE snap_to_max(bottom_point.x, char_width)
        nrows == (bottom - top) \div line_height
        selected == [i \in 1..Max(nrows, 1) |->
                        IF i = 1
                        THEN [x |-> left, y |-> top, w |-> S.viewport.w, h |-> line_height]
                        ELSE [x |-> 0, y |-> top + (i - 1) * line_height,
                              w |-> S.viewport.w, h |-> line_height]]
    IN  IF is_single_row
        THEN <<[x |-> left, y |-> top, w |-> right - left, h |-> line_height]>>
        ELSE [selected EXCEPT ![Len(selected)].w = right]

\* the rows Prompt's entry takes: prompt_text + *input wrapped by update_entry
prompt_rows(S) ==
    Len(split_entry_text(S.prompt.prompt_text \o prompt_input(S),
                         S.font.char_width, S.viewport.w))

RECURSIVE rows_before(_, _)
\* row_counter when render_lines reaches the entry at position i of the deque
rows_before(S, i) ==
    IF i = 1 THEN prompt_rows(S)
    ELSE rows_before(S, i - 1) + Len(S.entries[i - 1].lines)

\* row_counter of render_entry at the k-th line of entry i: lines go last first
row_counter(S, i, k) == rows_before(S, i) + (Len(S.entries[i].lines) - k + 1)

\* render_entry draws the rows after scroll_value, up to max_row
is_drawn(S, row) == row > S.scroll_value /\ row <= rows(S) + S.scroll_value

\* ypos at a drawn row: one line height less for every row drawn so far
ypos(S, row) ==
    S.viewport.h - (row - Max(S.scroll_value, 0)) * line_height_with_spacing(S.font)

\* LogScreen::render_lines: every line drawn gets line.coord.y = ypos
LogScreen_render_lines(S) ==
    [S EXCEPT !.entries =
        [i \in DOMAIN S.entries |->
            [S.entries[i] EXCEPT !.lines =
                [k \in DOMAIN S.entries[i].lines |->
                    IF is_drawn(S, row_counter(S, i, k))
                    THEN [S.entries[i].lines[k] EXCEPT
                              !.coord.y = ypos(S, row_counter(S, i, k))]
                    ELSE S.entries[i].lines[k]]]]]

\* the lines of the entries that render_lines draws, and where
frame(S) ==
    UNION {{[id |-> S.entries[i].id, index |-> S.entries[i].lines[k].index,
             y |-> ypos(S, row_counter(S, i, k))] :
               k \in {n \in DOMAIN S.entries[i].lines :
                          is_drawn(S, row_counter(S, i, n))}} :
           i \in DOMAIN S.entries}

\* std::u32string_view::substr(pos, n)
substr(text, pos, n) == SubSeq(text, pos + 1, pos + n)

RECURSIVE lines_oldest_first(_, _)
\* the lines copy_to_clipboard visits, in its order: entries.rbegin() to
\* rend(), each entry's lines first to last
lines_oldest_first(es, i) ==
    IF i = 0 THEN <<>>
    ELSE [k \in DOMAIN es[i].lines |->
             [id |-> es[i].id, index |-> es[i].lines[k].index,
              text |-> substr(es[i].text, es[i].lines[k].start_index,
                              es[i].lines[k].end_index - es[i].lines[k].start_index + 1),
              y |-> es[i].lines[k].coord.y]]
         \o lines_oldest_first(es, i - 1)

\* std::reverse
reverse(seq) == [i \in DOMAIN seq |-> seq[Len(seq) + 1 - i]]

\* copy_to_clipboard, lines 2017-2022: the rect lies on the line's row and
\* starts inside its text (get_column's size_t of a negative x is past any text)
rect_hits(rect, line, char_width) ==
    /\ rect.y = line.y
    /\ TruncDiv(rect.x, char_width) >= 0
    /\ TruncDiv(rect.x, char_width) < Len(line.text)

\* line.text.substr(col, min(extent - col, size - col))
rect_text(rect, line, char_width) ==
    LET col == TruncDiv(rect.x, char_width)
    IN  substr(line.text, col, Min(TruncDiv(rect.w, char_width), Len(line.text) - col))

\* for (auto& rect : rects) of lines 2013-2023: what one line adds to ret,
\* rect by rect
line_pieces(line, rects, char_width) ==
    LET hit(rect) == rect_hits(rect, line, char_width)
        hits == SelectSeq(rects, hit)
    IN  [r \in DOMAIN hits |->
            [id |-> line.id, index |-> line.index,
             text |-> rect_text(hits[r], line, char_width)]]

RECURSIVE copied_pieces(_, _, _, _)
\* what the loops of copy_to_clipboard add to ret, in order, from the line at
\* position n on
copied_pieces(lines, rects, char_width, n) ==
    IF n > Len(lines) THEN <<>>
    ELSE line_pieces(lines[n], rects, char_width)
         \o copied_pieces(lines, rects, char_width, n + 1)

RECURSIVE joined(_, _, _)
\* lines 2019-2022: sep goes in front of a piece whenever ret is not empty
joined(ret, pieces, k) ==
    IF k > Len(pieces) THEN ret
    ELSE joined((IF ret # <<>> THEN ret \o <<"\n">> ELSE <<>>) \o pieces[k].text,
                pieces, k + 1)

\* what copy_to_clipboard takes from the lines, given the rects
pieces_to_copy(S, sel) ==
    copied_pieces(lines_oldest_first(S.entries, Len(S.entries)),
                  reverse(get_highlighted_rects(S, sel)), S.font.char_width, 1)

\* LogScreen::copy_to_clipboard: the text handed to SDL_SetClipboardText
copy_to_clipboard(S, sel) == joined(<<>>, pieces_to_copy(S, sel), 1)

InitSel ==
    /\ mouse_motion_start = [x |-> -1, y |-> -1]
    /\ mouse_motion_end = [x |-> -1, y |-> -1]
    /\ depressed = FALSE
    /\ clipboard = <<>>
    /\ shown = {}

\* the selection fields after a mouse handler
SelectionIs(sel) ==
    /\ mouse_motion_start' = sel.mouse_motion_start
    /\ mouse_motion_end' = sel.mouse_motion_end
    /\ depressed' = sel.depressed

\* texts handed to Console_AddLine: one line, and two lines split at a newline
SelTexts == {<<"a", "b">>, <<"c", "\n", "d", "e">>}

\* mouse positions in window coordinates: over the toolbar, and in the text
\* on the top row, on the third row from the bottom and on the upper edge of
\* the bottom row
SelPoints ==
    {[x |-> 7, y |-> 10]}
        \cup {[x |-> x, y |-> y] : x \in {7, 17}, y \in {30, 427, 460}}

\* SDL_MOUSEBUTTONDOWN of the left button at p, not over the scrollbar:
\* Scrollbar's slot returns at its in_rect, LogScreen's starts a selection
TextMouseDown(p) ==
    /\ ~crashed
    /\ SelectionIs(LogScreen_on_mouse_button_down(Screen, Selection, p))
    /\ UNCHANGED <<clipboard, shown>>
    /\ ScreenFields(Screen)
    /\ UNCHANGED <<appended, scen, wrapVars, sigVars, utfVars, dispVars, lineVars>>

\* SDL_MOUSEMOTION at p: Scrollbar's slot, then LogScreen's
TextMouseMotion(p) ==
    /\ ~crashed
    /\ SelectionIs(LogScreen_on_mouse_motion(Screen, Selection, p))
    /\ UNCHANGED <<clipboard, shown>>
    /\ ScreenFields(Scrollbar_on_SDL_MouseMotion(Screen, p.y))
    /\ UNCHANGED <<appended, scen, wrapVars, sigVars, utfVars, dispVars, lineVars>>

\* SDL_MOUSEBUTTONUP at p: Scrollbar's slot, then LogScreen's
TextMouseUp(p) ==
    /\ ~crashed
    /\ SelectionIs(LogScreen_on_mouse_button_up(Screen, Selection, p))
    /\ UNCHANGED <<clipboard, shown>>
    /\ ScreenFields(Scrollbar_on_SDL_MouseButtonUp(Screen))
    /\ UNCHANGED <<appended, scen, wrapVars, sigVars, utfVars, dispVars, lineVars>>

\* render_frame: LogScreen::render draws the lines in view
RenderFrame ==
    /\ ~crashed
    /\ ScreenFields(LogScreen_render_lines(Screen))
    /\ shown' = frame(Screen)
    /\ UNCHANGED <<mouse_motion_start, mouse_motion_end, depressed, clipboard>>
    /\ UNCHANGED <<appended, scen, wrapVars, sigVars, utfVars, dispVars, lineVars>>

\* Ctrl-C (on_key_down, lines 1769-1774) or the toolbar's Copy button
\* (lines 2771-2774): copy_to_clipboard
CopyToClipboard ==
    /\ ~crashed
    /\ clipboard' = copy_to_clipboard(Screen, Selection)
    /\ UNCHANGED <<mouse_motion_start, mouse_motion_end, depressed, shown>>
    /\ ScreenFields(Screen)
    /\ UNCHANGED <<appended, scen, wrapVars, sigVars, utfVars, dispVars, lineVars>>

\* the handlers that select and copy text, over a store of a few entries, up
\* to the first text that reaches the clipboard
NextSel ==
    \/ \E text \in SelTexts :
          clipboard = <<>> /\ appended < MaxSelAppend /\ AddLine(text)
    \/ \E y \in {-1, 1} : clipboard = <<>> /\ MouseWheel(y)
    \/ \E p \in SelPoints : clipboard = <<>> /\ TextMouseDown(p)
    \/ \E p \in SelPoints : clipboard = <<>> /\ TextMouseMotion(p)
    \/ \E p \in SelPoints : clipboard = <<>> /\ TextMouseUp(p)
    \/ clipboard = <<>> /\ RenderFrame
    \/ clipboard = <<>> /\ CopyToClipboard

(***************************************************************************)
(* The dispatcher: ExternalEventWaiter with its two queues, the threads    *)
(* that push to it, and the render (owner) thread running Console_Create,  *)
(* Console_MainLoop and Console_Destroy.                                   *)
(***************************************************************************)
\* the thread that SDL calls sdl_event_callback on, and a thread using the API
Producers == {"sdl_thread", "api_thread"}

Queue(q) == IF q = "sdl" THEN sdl_q ELSE api_q

Mutex(q) == IF q = "sdl" THEN sdl_mutex ELSE api_mutex

\* SDLEventFilterSetter: sdl_event_callback is the installed filter from
\* Console_Create (line 2620) until MainLoop's reset_saved (line 2846)
filter_installed ==
    owner_pc \in {"wait", "clear", "drain_sdl", "drain_api", "check"}

\* on_sdl_event_inproc_mutex is held for the whole of sdl_event_callback
on_sdl_event_inproc_mutex_free ==
    \A p \in Producers : prod[p].q = "sdl" => prod[p].pc = "idle"

\* the mutant of push_accepts that takes an item in any state
push_accepts_always(status) == TRUE

\* EventQueue::push, the test "status != State::active" inverted
push_accepts(status) == status = "active"

\* the mutant of push_notifier that forgets the store
push_notifier_unchanged(old) == old

\* EventQueue::push, "notifier = true": the new value of the notifier
push_notifier(old) == TRUE

\* the mutants of EventQueue_pop: newest first, and front() without pop()
pop_newest(queue) ==
    [event |-> queue[Len(queue)], queue |-> SubSeq(queue, 1, Len(queue) - 1)]

pop_without_remove(queue) ==
    [event |-> Head(queue), queue |-> queue]

\* EventQueue::pop on a non-empty queue: the event handed out, the queue left
EventQueue_pop(queue) ==
    [event |-> Head(queue), queue |-> Tail(queue)]

\* the mutant of scoped_lock_ready that does not wait for the mutexes
scoped_lock_skipped(m1, m2) == TRUE

\* std::scoped_lock lock(sdl.mutex, api.mutex) can be taken
scoped_lock_ready(m1, m2) == m1 = "none" /\ m2 = "none"

SetQueue(q, new) ==
    /\ sdl_q' = IF q = "sdl" THEN new ELSE sdl_q
    /\ api_q' = IF q = "api" THEN new ELSE api_q

SetMutex(q, holder) ==
    /\ sdl_mutex' = IF q = "sdl" THEN holder ELSE sdl_mutex
    /\ api_mutex' = IF q = "api" THEN holder ELSE api_mutex

Idle == [pc |-> "idle", id |-> 0, q |-> "none"]

\* the state Console_Create leaves behind, the render thread in
\* Console_MainLoop after its first render_frame
InitDisp ==
    /\ con_state = "active"
    /\ impl = TRUE
    /\ waiter_state = "active"
    /\ notifier = FALSE
    /\ sdl_q = <<>>
    /\ api_q = <<>>
    /\ sdl_mutex = "none"
    /\ api_mutex = "none"
    /\ owner_pc = "wait"
    /\ prod = [p \in Producers |-> Idle]
    /\ next_id = 1
    /\ info = <<>>
    /\ accepted_sdl = <<>>
    /\ accepted_api = <<>>
    /\ removed_sdl = <<>>
    /\ removed_api = <<>>
    /\ discarded = {}
    /\ cycle_log = <<>>
    /\ pending_sdl = <<>>

ownerVars == <<owner_pc, impl, cycle_log, pending_sdl, removed_sdl, removed_api, discarded>>

ghostPush == <<accepted_sdl, accepted_api>>

(***************************************************************************)
(* Producer threads.                                                       *)
(***************************************************************************)
\* EventQueue::push up to the status test: take the queue's mutex, and leave
\* at once when the dispatcher is not active
PushLock(p, q, id, kind) ==
    /\ Mutex(q) = "none"
    /\ info' = Append(info, [q |-> q, kind |-> kind, con |-> con_state,
                             waiter |-> waiter_state])
    /\ next_id' = id + 1
    /\ IF push_accepts(waiter_state)
       THEN /\ SetMutex(q, p)
            /\ prod' = [prod EXCEPT ![p] = [pc |-> "locked", id |-> id, q |-> q]]
       ELSE /\ UNCHANGED <<sdl_mutex, api_mutex>>
            /\ prod' = [prod EXCEPT ![p] = Idle]

\* sdl_event_callback for an event of the console's focused window
SdlEventCallback(p) ==
    /\ p = "sdl_thread"
    /\ prod[p].pc = "idle"
    /\ next_id <= MaxItems
    /\ filter_installed
    /\ PushLock(p, "sdl", next_id, "event")
    /\ UNCHANGED <<con_state, waiter_state, notifier, sdl_q, api_q, ownerVars, ghostPush>>
    /\ UNCHANGED <<screenVars, lineVars>>

\* Console_AddLine, Console_Clear, Console_SetPrompt, Console_SetScrollback:
\* api.push of a task
ApiPush(p) ==
    /\ p = "api_thread"
    /\ prod[p].pc = "idle"
    /\ next_id <= MaxItems
    /\ PushLock(p, "api", next_id, "task")
    /\ UNCHANGED <<con_state, waiter_state, notifier, sdl_q, api_q, ownerVars, ghostPush>>
    /\ UNCHANGED <<screenVars, lineVars>>

\* Console_Shutdown, line 2905: the state is stored whatever it was
ConsoleShutdown(p) ==
    /\ prod[p].pc = "idle"
    /\ next_id <= MaxItems
    /\ con_state' = "shutdown"
    /\ prod' = [prod EXCEPT ![p] = [pc |-> "stored", id |-> 0, q |-> "api"]]
    /\ UNCHANGED <<waiter_state, notifier, sdl_q, api_q, sdl_mutex, api_mutex,
                   next_id, info, ownerVars, ghostPush>>
    /\ UNCHANGED <<screenVars, lineVars>>

\* Console_Shutdown, line 2907: api.push of the empty task that wakes the owner
ConsoleShutdownPush(p) ==
    /\ prod[p].pc = "stored"
    /\ PushLock(p, "api", next_id, "wake")
    /\ UNCHANGED <<con_state, waiter_state, notifier, sdl_q, api_q, ownerVars, ghostPush>>
    /\ UNCHANGED <<screenVars, lineVars>>

\* EventQueue::push, queue.push(event)
PushEnqueue(p) ==
    /\ prod[p].pc = "locked"
    /\ SetQueue(prod[p].q, Append(Queue(prod[p].q), prod[p].id))
    /\ accepted_sdl' = IF prod[p].q = "sdl" THEN Append(accepted_sdl, prod[p].id)
                       ELSE accepted_sdl
    /\ accepted_api' = IF prod[p].q = "api" THEN Append(accepted_api, prod[p].id)
                       ELSE accepted_api
    /\ prod' = [prod EXCEPT ![p].pc = "pushed"]
    /\ UNCHANGED <<con_state, waiter_state, notifier, sdl_mutex, api_mutex,
                   next_id, info, ownerVars>>
    /\ UNCHANGED <<screenVars, lineVars>>

\* EventQueue::push, notifier = true, the end of the lock's scope, notify_one
PushNotify(p) ==
    /\ prod[p].pc = "pushed"
    /\ notifier' = push_notifier(notifier)
    /\ SetMutex(prod[p].q, "none")
    /\ prod' = [prod EXCEPT ![p] = Idle]
    /\ UNCHANGED <<con_state, waiter_state, sdl_q, api_q, next_id, info,
                   ownerVars, ghostPush>>
    /\ UNCHANGED <<screenVars, lineVars>>

(***************************************************************************)
(* The render thread: Console_MainLoop, then Console_Destroy, then a new   *)
(* Console_Create on the same static Console_con.                          *)
(***************************************************************************)
producerVars == <<prod, next_id, info, accepted_sdl, accepted_api>>

\* wait_for_events: notifier.wait(false) returns once the notifier is true
WaitForEvents ==
    /\ owner_pc = "wait"
    /\ notifier
    /\ owner_pc' = "clear"
    /\ UNCHANGED <<con_state, impl, waiter_state, notifier, sdl_q, api_q, sdl_mutex,
                   api_mutex, removed_sdl, removed_api, discarded, cycle_log,
                   pending_sdl, producerVars>>
    /\ UNCHANGED <<screenVars, lineVars>>

\* wait_for_events: notifier = false under both queue mutexes
ClearNotifier ==
    /\ owner_pc = "clear"
    /\ scoped_lock_ready(sdl_mutex, api_mutex)
    /\ notifier' = FALSE
    /\ owner_pc' = "drain_sdl"
    /\ pending_sdl' = sdl_q
    /\ UNCHANGED <<con_state, impl, waiter_state, sdl_q, api_q, sdl_mutex, api_mutex,
                   removed_sdl, removed_api, discarded, cycle_log, producerVars>>
    /\ UNCHANGED <<screenVars, lineVars>>

\* MainLoop: while (sdl.pop(event)) emit_sdl_event(impl, event);
DrainSdl ==
    /\ owner_pc = "drain_sdl"
    /\ sdl_mutex = "none"
    /\ IF sdl_q = <<>>
       THEN /\ owner_pc' = "drain_api"
            /\ UNCHANGED <<sdl_q, removed_sdl, cycle_log>>
       ELSE /\ sdl_q' = EventQueue_pop(sdl_q).queue
            /\ removed_sdl' = Append(removed_sdl, EventQueue_pop(sdl_q).event)
            /\ cycle_log' = Append(cycle_log, EventQueue_pop(sdl_q).event)
            /\ UNCHANGED owner_pc
    /\ UNCHANGED <<con_state, impl, waiter_state, notifier, api_q, sdl_mutex, api_mutex,
                   removed_api, discarded, pending_sdl, producerVars>>
    /\ UNCHANGED <<screenVars, lineVars>>

\* MainLoop: while (api.pop(f)) f();
DrainApi ==
    /\ owner_pc = "drain_api"
    /\ api_mutex = "none"
    /\ IF api_q = <<>>
       THEN /\ owner_pc' = "check"
            /\ UNCHANGED <<api_q, removed_api, cycle_log>>
       ELSE /\ api_q' = EventQueue_pop(api_q).queue
            /\ removed_api' = Append(removed_api, EventQueue_pop(api_q).event)
            /\ cycle_log' = Append(cycle_log, EventQueue_pop(api_q).event)
            /\ UNCHANGED owner_pc
    /\ UNCHANGED <<con_state, impl, waiter_state, notifier, sdl_q, sdl_mutex, api_mutex,
                   removed_sdl, discarded, pending_sdl, producerVars>>
    /\ UNCHANGED <<screenVars, lineVars>>

\* MainLoop: if (con->is_shuttingdown()) { reset_saved(); ... } else
\* { SDL_Delay(50); } and, on the next iteration, render_frame: the iteration
\* is over
CheckShutdown ==
    /\ owner_pc = "check"
    /\ owner_pc' = IF con_state = "shutdown" THEN "line_shutdown" ELSE "wait"
    /\ cycle_log' = <<>>
    /\ pending_sdl' = <<>>
    /\ UNCHANGED <<con_state, impl, waiter_state, notifier, sdl_q, api_q, sdl_mutex,
                   api_mutex, removed_sdl, removed_api, discarded, producerVars>>
    /\ UNCHANGED <<screenVars, lineVars>>

\* the mutant of InputLineWaiter_shutdown that leaves the flag alone
InputLineWaiter_shutdown_forgotten(S) == S

\* InputLineWaiter::shutdown: completed = true, notify_one
InputLineWaiter_shutdown(S) == [S EXCEPT !.completed = TRUE]

\* MainLoop, line 2847: impl->input_line_waiter.shutdown()
OwnerLineShutdown ==
    /\ owner_pc = "line_shutdown"
    /\ completed' = InputLineWaiter_shutdown(Screen).completed
    /\ line_shut' = TRUE
    /\ owner_pc' = "getline_barrier"
    /\ UNCHANGED <<entries, num_lines, max_lines, scroll_value, viewport, font,
                   scrollbar, prompt, input_q, inf_cast, appended, dangling,
                   crashed, scen, wrapVars, selVars, sigVars, utfVars>>
    /\ UNCHANGED <<con_state, impl, waiter_state, notifier, sdl_q, api_q, sdl_mutex,
                   api_mutex, removed_sdl, removed_api, discarded, cycle_log,
                   pending_sdl, producerVars>>
    /\ UNCHANGED <<cons, getline_mutex, lines_pushed, got, torn_down>>

\* the mutant of getline_inproc_mutex_free that does not wait for the mutex
getline_inproc_mutex_ignored(holder) == TRUE

\* std::scoped_lock l(con->getline_inproc_mutex) can be taken
getline_inproc_mutex_free(holder) == holder = "none"

\* MainLoop, lines 2848-2850: lock and unlock getline_inproc_mutex
GetlineBarrier ==
    /\ owner_pc = "getline_barrier"
    /\ getline_inproc_mutex_free(getline_mutex)
    /\ owner_pc' = "flip"
    /\ UNCHANGED <<con_state, impl, waiter_state, notifier, sdl_q, api_q, sdl_mutex,
                   api_mutex, removed_sdl, removed_api, discarded, cycle_log,
                   pending_sdl, producerVars>>
    /\ UNCHANGED <<screenVars, lineVars>>

\* ExternalEventWaiter::shutdown: state = State::shutdown under both mutexes
ShutdownFlip ==
    /\ owner_pc = "flip"
    /\ scoped_lock_ready(sdl_mutex, api_mutex)
    /\ waiter_state' = "shutdown"
    /\ owner_pc' = "shutdown_drain_sdl"
    /\ UNCHANGED <<con_state, impl, notifier, sdl_q, api_q, sdl_mutex, api_mutex,
                   removed_sdl, removed_api, discarded, cycle_log, pending_sdl,
                   producerVars>>
    /\ UNCHANGED <<screenVars, lineVars>>

\* ExternalEventWaiter::drain: while (sdl.pop(e)) ; the event is dropped
DrainDiscardSdl(next_pc) ==
    /\ sdl_mutex = "none"
    /\ IF sdl_q = <<>>
       THEN /\ owner_pc' = next_pc
            /\ UNCHANGED <<sdl_q, removed_sdl, discarded>>
       ELSE /\ sdl_q' = EventQueue_pop(sdl_q).queue
            /\ removed_sdl' = Append(removed_sdl, EventQueue_pop(sdl_q).event)
            /\ discarded' = discarded \cup {EventQueue_pop(sdl_q).event}
            /\ UNCHANGED owner_pc
    /\ UNCHANGED <<con_state, impl, waiter_state, notifier, api_q, sdl_mutex, api_mutex,
                   removed_api, cycle_log, pending_sdl, producerVars>>
    /\ UNCHANGED <<screenVars, lineVars>>

\* ExternalEventWaiter::drain: while (api.pop(t)) ; the task is dropped
DrainDiscardApi(next_pc) ==
    /\ api_mutex = "none"
    /\ IF api_q = <<>>
       THEN /\ owner_pc' = next_pc
            /\ UNCHANGED <<api_q, removed_api, discarded>>
       ELSE /\ api_q' = EventQueue_pop(api_q).queue
            /\ removed_api' = Append(removed_api, EventQueue_pop(api_q).event)
            /\ discarded' = discarded \cup {EventQueue_pop(api_q).event}
            /\ UNCHANGED owner_pc
    /\ UNCHANGED <<con_state, impl, waiter_state, notifier, sdl_q, sdl_mutex, api_mutex,
                   removed_sdl, cycle_log, pending_sdl, producerVars>>
    /\ UNCHANGED <<screenVars, lineVars>>

\* shutdown() -> drain()
ShutdownDrainSdl == owner_pc = "shutdown_drain_sdl" /\ DrainDiscardSdl("shutdown_drain_api")

ShutdownDrainApi == owner_pc = "shutdown_drain_api" /\ DrainDiscardApi("inproc")

\* MainLoop: lock and unlock on_sdl_event_inproc_mutex, break, return 0
MainLoopReturn ==
    /\ owner_pc = "inproc"
    /\ on_sdl_event_inproc_mutex_free
    /\ owner_pc' = "returned"
    /\ UNCHANGED <<con_state, impl, waiter_state, notifier, sdl_q, api_q, sdl_mutex,
                   api_mutex, removed_sdl, removed_api, discarded, cycle_log,
                   pending_sdl, producerVars>>
    /\ UNCHANGED <<screenVars, lineVars>>

\* a thread is inside Console_GetLine past its is_active test, or inside
\* sdl_event_callback: both use con->impl
call_in_flight ==
    \/ \E c \in DOMAIN cons : cons[c] \notin {"idle", "thread_check"}
    \/ \E p \in Producers : prod[p].q = "sdl" /\ prod[p].pc # "idle"

\* Console_Destroy on the render thread, after Console_MainLoop returned
ConsoleDestroy ==
    /\ owner_pc = "returned"
    /\ IF con_state = "inactive"
       THEN UNCHANGED <<con_state, impl, torn_down>>
       ELSE /\ con_state' = "inactive"
            /\ impl' = FALSE
            /\ torn_down' = (torn_down \/ call_in_flight)
    /\ owner_pc' = "destroyed"
    /\ UNCHANGED <<waiter_state, notifier, sdl_q, api_q, sdl_mutex, api_mutex,
                   removed_sdl, removed_api, discarded, cycle_log, pending_sdl,
                   producerVars>>
    /\ UNCHANGED <<cons, getline_mutex, line_shut, lines_pushed, got>>
    /\ UNCHANGED screenVars

\* Console_Create again: con->init builds a new Impl, whose constructor
\* calls external_event_waiter.reset(), first its drain()
ConsoleCreate ==
    /\ owner_pc = "destroyed"
    /\ ~impl
    /\ next_id <= MaxItems
    /\ impl' = TRUE
    /\ owner_pc' = "reset_drain_sdl"
    /\ UNCHANGED <<con_state, waiter_state, notifier, sdl_q, api_q, sdl_mutex,
                   api_mutex, removed_sdl, removed_api, discarded, cycle_log,
                   pending_sdl, producerVars>>
    /\ UNCHANGED <<screenVars, lineVars>>

ResetDrainSdl == owner_pc = "reset_drain_sdl" /\ DrainDiscardSdl("reset_drain_api")

ResetDrainApi == owner_pc = "reset_drain_api" /\ DrainDiscardApi("reset_flip")

\* ExternalEventWaiter::reset: state = State::active under both mutexes
ResetFlip ==
    /\ owner_pc = "reset_flip"
    /\ scoped_lock_ready(sdl_mutex, api_mutex)
    /\ waiter_state' = "active"
    /\ owner_pc' = "created"
    /\ UNCHANGED <<con_state, impl, notifier, sdl_q, api_q, sdl_mutex, api_mutex,
                   removed_sdl, removed_api, discarded, cycle_log, pending_sdl,
                   producerVars>>
    /\ UNCHANGED <<screenVars, lineVars>>

\* Console_Create, line 2793: con->state = State::active; then Console_MainLoop
\* up to its first render_frame
ConsoleCreateDone ==
    /\ owner_pc = "created"
    /\ con_state' = "active"
    /\ owner_pc' = "wait"
    /\ UNCHANGED <<impl, waiter_state, notifier, sdl_q, api_q, sdl_mutex, api_mutex,
                   removed_sdl, removed_api, discarded, cycle_log, pending_sdl,
                   producerVars>>
    /\ UNCHANGED <<screenVars, lineVars>>

NextDisp ==
    \/ \E p \in Producers : SdlEventCallback(p)
    \/ \E p \in Producers : ApiPush(p)
    \/ \E p \in Producers : ConsoleShutdown(p)
    \/ \E p \in Producers : ConsoleShutdownPush(p)
    \/ \E p \in Producers : PushEnqueue(p)
    \/ \E p \in Producers : PushNotify(p)
    \/ WaitForEvents
    \/ ClearNotifier
    \/ DrainSdl
    \/ DrainApi
    \/ CheckShutdown
    \/ OwnerLineShutdown
    \/ GetlineBarrier
    \/ ShutdownFlip
    \/ ShutdownDrainSdl
    \/ ShutdownDrainApi
    \/ MainLoopReturn
    \/ ConsoleDestroy
    \/ ConsoleCreate
    \/ ResetDrainSdl
    \/ ResetDrainApi
    \/ ResetFlip
    \/ ConsoleCreateDone

(***************************************************************************)
(* The line rendezvous: InputLineWaiter, fed by the owner thread's RETURN  *)
(* key handler and read by the threads that call wait_get.                 *)
(***************************************************************************)
\* example.cpp's main thread, and one more thread calling the same API
Consumers == {"main", "reader"}

\* the mutant of wait_get_front that takes the newest line
wait_get_back(S) ==
    [buf |-> S.input_q[Len(S.input_q)], ret |-> Len(S.input_q[Len(S.input_q)]),
     S |-> [S EXCEPT !.input_q = SubSeq(S.input_q, 1, Len(S.input_q) - 1)]]

\* wait_get, lines 1691-1693: buf = to_utf8(input_q.front()); input_q.pop();
\* return buf.length().  The lines of the model are ASCII, one byte a character.
wait_get_front(S) ==
    [buf |-> Head(S.input_q), ret |-> Len(Head(S.input_q)),
     S |-> [S EXCEPT !.input_q = Tail(S.input_q)]]

InitLine ==
    /\ cons = [c \in Consumers |-> "idle"]
    /\ getline_mutex = "none"
    /\ line_shut = FALSE
    /\ lines_pushed = <<>>
    /\ got = <<>>
    /\ torn_down = FALSE

\* the call of thread c returns ret: the end of Console_GetLine's scope
\* releases getline_inproc_mutex when the call came through Console_GetLine
Returns(c, ret, kind, buf) ==
    /\ got' = Append(got, [c |-> c, ret |-> ret, kind |-> kind, buf |-> buf,
                           shut |-> line_shut])
    /\ cons' = [cons EXCEPT ![c] = "idle"]
    /\ getline_mutex' = IF getline_mutex = c THEN "none" ELSE getline_mutex

\* SDL_KEYDOWN of the RETURN key on the owner thread: Prompt's slot, then
\* LogScreen's, which submits the prompt's line to InputLineWaiter::push
SubmitOnReturn ==
    /\ ~crashed
    /\ appended < MaxAppend
    /\ Len(input_q) < MaxSubmit
    /\ \E dies \in BOOLEAN :
          LET S == LogScreen_on_key_down(Prompt_on_key_down(Screen, "RETURN"),
                                         "RETURN", appended + 1, dies)
          IN  /\ ScreenIs(S)
              /\ lines_pushed' = IF Len(S.input_q) > Len(input_q)
                           THEN Append(lines_pushed, S.input_q[Len(S.input_q)])
                           ELSE lines_pushed
    /\ appended' = appended + 1
    /\ scen' = -2
    /\ UNCHANGED <<cons, getline_mutex, line_shut, got, torn_down>>

\* the RETURN key handled with the dispatcher left alone
ReturnKey == SubmitOnReturn /\ UNCHANGED dispVars

\* a thread calls InputLineWaiter::wait_get
WaitGetCall(c) ==
    /\ cons[c] = "idle"
    /\ Len(got) + Cardinality({d \in Consumers : cons[d] # "idle"}) < MaxGets
    /\ cons' = [cons EXCEPT ![c] = "enter"]
    /\ UNCHANGED <<getline_mutex, line_shut, lines_pushed, got, torn_down>>
    /\ UNCHANGED <<screenVars, dispVars>>

\* wait_get, lines 1679-1681 and 1691-1693: under m, a queued line is taken
\* at once; with none the thread unlocks and goes to completed.wait(false)
WaitGetEnter(c) ==
    /\ cons[c] = "enter"
    /\ IF input_q = <<>>
       THEN /\ cons' = [cons EXCEPT ![c] = "wait"]
            /\ UNCHANGED <<getline_mutex, got, screenVars>>
       ELSE /\ ScreenIs(wait_get_front(Screen).S)
            /\ Returns(c, wait_get_front(Screen).ret, "line", wait_get_front(Screen).buf)
            /\ UNCHANGED <<appended, scen>>
    /\ UNCHANGED <<line_shut, lines_pushed, torn_down>>
    /\ UNCHANGED dispVars

\* wait_get, line 1682: completed.wait(false) returns once completed is true
WaitGetWake(c) ==
    /\ cons[c] = "wait"
    /\ completed
    /\ cons' = [cons EXCEPT ![c] = "woken"]
    /\ UNCHANGED <<getline_mutex, line_shut, lines_pushed, got, torn_down>>
    /\ UNCHANGED <<screenVars, dispVars>>

\* wait_get, lines 1683-1693: under m again, completed = false; with the
\* queue still empty return 0, else take the front line
WaitGetSecond(c) ==
    /\ cons[c] = "woken"
    /\ LET S == [Screen EXCEPT !.completed = FALSE]
       IN  IF input_q = <<>>
           THEN /\ ScreenIs(S)
                /\ Returns(c, 0, "empty", <<>>)
           ELSE /\ ScreenIs(wait_get_front(S).S)
                /\ Returns(c, wait_get_front(S).ret, "line", wait_get_front(S).buf)
    /\ UNCHANGED <<appended, scen>>
    /\ UNCHANGED <<line_shut, lines_pushed, torn_down>>
    /\ UNCHANGED dispVars

\* InputLineWaiter::shutdown called on the rendezvous
LineShutdown ==
    /\ ScreenIs(InputLineWaiter_shutdown(Screen))
    /\ line_shut' = TRUE
    /\ UNCHANGED <<appended, scen>>
    /\ UNCHANGED <<cons, getline_mutex, lines_pushed, got, torn_down>>
    /\ UNCHANGED dispVars

NextLine ==
    \/ ReturnKey
    \/ TextInput(<<"x">>)
    \/ \E c \in Consumers : WaitGetCall(c)
    \/ \E c \in Consumers : WaitGetEnter(c)
    \/ \E c \in Consumers : WaitGetWake(c)
    \/ \E c \in Consumers : WaitGetSecond(c)
    \/ LineShutdown

(***************************************************************************)
(* The console's life: the owner in Console_MainLoop and Console_Destroy,  *)
(* the SDL thread in sdl_event_callback, threads calling Console_Shutdown  *)
(* and threads calling Console_GetLine.                                    *)
(***************************************************************************)
\* Console_GetLine, lines 2928-2931: take getline_inproc_mutex; a console
\* that is not active gives -1 at once, else the call goes on to wait_get
ConsoleGetLine(c) ==
    /\ cons[c] = "idle"
    /\ Len(got) + Cardinality({d \in Consumers : cons[d] # "idle"}) < MaxGets
    /\ getline_inproc_mutex_free(getline_mutex)
    /\ IF con_state # "active"
       THEN Returns(c, -1, "inactive", <<>>)
       ELSE /\ getline_mutex' = c
            /\ cons' = [cons EXCEPT ![c] = "enter"]
            /\ UNCHANGED got
    /\ UNCHANGED <<line_shut, lines_pushed, torn_down>>
    /\ UNCHANGED <<screenVars, dispVars>>

\* MainLoop: sdl.pop(event) hands emit_sdl_event a RETURN key press
DrainSdlReturnKey ==
    /\ owner_pc = "drain_sdl"
    /\ sdl_mutex = "none"
    /\ sdl_q # <<>>
    /\ sdl_q' = EventQueue_pop(sdl_q).queue
    /\ removed_sdl' = Append(removed_sdl, EventQueue_pop(sdl_q).event)
    /\ cycle_log' = Append(cycle_log, EventQueue_pop(sdl_q).event)
    /\ SubmitOnReturn
    /\ UNCHANGED <<con_state, impl, waiter_state, notifier, api_q, sdl_mutex, api_mutex,
                   owner_pc, removed_api, discarded, pending_sdl, producerVars>>

\* the steps the owner thread takes once it is able to
OwnerStep ==
    \/ WaitForEvents
    \/ ClearNotifier
    \/ DrainSdl
    \/ DrainSdlReturnKey
    \/ DrainApi
    \/ CheckShutdown
    \/ OwnerLineShutdown
    \/ GetlineBarrier
    \/ ShutdownFlip
    \/ ShutdownDrainSdl
    \/ ShutdownDrainApi
    \/ MainLoopReturn
    \/ ConsoleDestroy

\* the steps that finish a call a thread is inside of
CallStep(t) ==
    \/ t \in Producers /\ (ConsoleShutdownPush(t) \/ PushEnqueue(t) \/ PushNotify(t))
    \/ t \in Consumers /\ (WaitGetEnter(t) \/ WaitGetWake(t) \/ WaitGetSecond(t))

NextLife ==
    \/ OwnerStep
    \/ \E t \in Producers \cup Consumers : CallStep(t)
    \/ \E p \in Producers : next_id <= MaxLifeItems /\ SdlEventCallback(p)
    \/ next_id <= MaxLifeItems /\ ConsoleShutdown("api_thread")
    \/ \E c \in Consumers : ConsoleGetLine(c)

(***************************************************************************)
(* Console_Destroy called by a thread that is not the render thread, and   *)
(* called again by the render thread after its first call.                 *)
(***************************************************************************)
\* Console_Destroy, lines 2917-2923, in a call that found the state not
\* inactive: "false" is the return of line 2918, "teardown" is lines
\* 2920-2923.  Line 2917 reads con->impl->render_thread_id: through an impl
\* that Console_Destroy has reset the read is undefined, the process dies or
\* the comparison goes either way on what was read.
destroy_after_state_check(has_impl, on_render_thread) ==
    IF has_impl
    THEN {IF on_render_thread THEN "teardown" ELSE "false"}
    ELSE {"crash", "false", "teardown"}

\* the Console_Destroy calls made so far and the ones under way
destroy_calls ==
    Cardinality({i \in DOMAIN got : got[i].kind = "destroy"})
        + Cardinality({c \in Consumers : cons[c] = "thread_check"})

\* what is left alone by a step of a Console_Destroy call
DestroyFrame ==
    /\ UNCHANGED <<waiter_state, notifier, sdl_q, api_q, sdl_mutex, api_mutex,
                   owner_pc, removed_sdl, removed_api, discarded, cycle_log,
                   pending_sdl, producerVars>>
    /\ UNCHANGED <<getline_mutex, line_shut, lines_pushed, torn_down>>
    /\ UNCHANGED <<appended, scen>>

\* the call of thread t goes on from line 2917 with the outcome out; the
\* return value true is recorded as 1 and false as 0
DestroyOutcome(t, out) ==
    /\ ScreenIs([Screen EXCEPT !.crashed = (out = "crash")])
    /\ con_state' = IF out = "teardown" THEN "inactive" ELSE con_state
    /\ impl' = IF out = "teardown" THEN FALSE ELSE impl
    /\ got' = IF out = "crash" THEN got
              ELSE Append(got, [c |-> t, ret |-> IF out = "teardown" THEN 1 ELSE 0,
                                kind |-> "destroy", buf |-> <<>>, shut |-> line_shut])

\* the call of thread t returns true at line 2915
DestroyInactive(t) ==
    /\ ScreenIs(Screen)
    /\ UNCHANGED <<con_state, impl>>
    /\ got' = Append(got, [c |-> t, ret |-> 1, kind |-> "destroy", buf |-> <<>>,
                           shut |-> line_shut])

\* a thread that did not create the console calls Console_Destroy: line
\* 2914, the load of the atomic state
DestroyCall(c) ==
    /\ cons[c] = "idle"
    /\ destroy_calls < MaxDestroy
    /\ IF con_state = "inactive"
       THEN DestroyInactive(c) /\ UNCHANGED cons
       ELSE /\ cons' = [cons EXCEPT ![c] = "thread_check"]
            /\ ScreenIs(Screen)
            /\ UNCHANGED <<con_state, impl, got>>
    /\ DestroyFrame

\* the same call at line 2917, the read of con->impl->render_thread_id
DestroyThreadCheck(c) ==
    /\ cons[c] = "thread_check"
    /\ \E out \in destroy_after_state_check(impl, FALSE) : DestroyOutcome(c, out)
    /\ cons' = [cons EXCEPT ![c] = "idle"]
    /\ DestroyFrame

\* the render thread calls Console_Destroy again after its first call
ConsoleDestroyAgain ==
    /\ owner_pc = "destroyed"
    /\ destroy_calls < MaxDestroy
    /\ IF con_state = "inactive"
       THEN DestroyInactive("render")
       ELSE \E out \in destroy_after_state_check(impl, TRUE) :
               DestroyOutcome("render", out)
    /\ UNCHANGED cons
    /\ DestroyFrame

\* Console_Shutdown, Console_MainLoop to its return, Console_Destroy on every
\* thread and Console_Create again, for as long as the process lives
NextDestroy ==
    \/ ~crashed /\ ConsoleShutdown("api_thread")
    \/ ~crashed /\ ConsoleShutdownPush("api_thread")
    \/ ~crashed /\ PushEnqueue("api_thread")
    \/ ~crashed /\ PushNotify("api_thread")
    \/ ~crashed /\ WaitForEvents
    \/ ~crashed /\ ClearNotifier
    \/ ~crashed /\ DrainSdl
    \/ ~crashed /\ DrainApi
    \/ ~crashed /\ CheckShutdown
    \/ ~crashed /\ OwnerLineShutdown
    \/ ~crashed /\ GetlineBarrier
    \/ ~crashed /\ ShutdownFlip
    \/ ~crashed /\ ShutdownDrainSdl
    \/ ~crashed /\ ShutdownDrainApi
    \/ ~crashed /\ MainLoopReturn
    \/ ~crashed /\ ConsoleDestroy
    \/ ~crashed /\ ConsoleCreate
    \/ ~crashed /\ ResetDrainSdl
    \/ ~crashed /\ ResetDrainApi
    \/ ~crashed /\ ResetFlip
    \/ ~crashed /\ ConsoleCreateDone
    \/ \E c \in Consumers : ~crashed /\ DestroyCall(c)
    \/ \E c \in Consumers : ~crashed /\ DestroyThreadCheck(c)
    \/ ~crashed /\ ConsoleDestroyAgain

(***************************************************************************)
(* The API tasks: Console_AddLine, Console_Clear, Console_SetPrompt and    *)
(* Console_SetScrollback called on another thread, and the owner thread    *)
(* running what they queued.                                               *)
(***************************************************************************)
ApiTasks == {"add_line", "clear", "set_prompt", "set_scrollback"}

\* the body of the task each API function queues, as the owner runs it:
\* new_output_line(str), clear(), prompt.set_prompt(str), max_lines = lines
run_task(S, kind, id, dies) ==
    CASE kind = "add_line"       -> LogScreen_new_output_line(S, id, <<"x">>, dies)
      [] kind = "clear"          -> LogScreen_clear(S)
      [] kind = "set_prompt"     -> [S EXCEPT !.prompt.prompt_text = <<"$", " ">>]
      [] kind = "set_scrollback" -> [S EXCEPT !.max_lines = MaxScrollback]
      [] OTHER                   -> S

\* the mutant of api_call_effect that runs the task on the calling thread
api_call_runs_task(S, kind) == run_task(S, kind, 0, FALSE)

\* what the API function itself does to the screen before and after its
\* api.push: nothing
api_call_effect(S, kind) == S

\* Console_AddLine, Console_Clear, Console_SetPrompt, Console_SetScrollback
\* up to the status test of api.push
ApiCall(p, kind) ==
    /\ p = "api_thread"
    /\ prod[p].pc = "idle"
    /\ next_id <= MaxItems
    /\ PushLock(p, "api", next_id, kind)
    /\ ScreenIs(api_call_effect(Screen, kind))
    /\ UNCHANGED <<appended, scen>>
    /\ UNCHANGED <<con_state, waiter_state, notifier, sdl_q, api_q, ownerVars, ghostPush>>
    /\ UNCHANGED lineVars

\* MainLoop: api.pop(f) hands out a task and f() runs it
DrainApiTask ==
    /\ owner_pc = "drain_api"
    /\ api_mutex = "none"
    /\ api_q # <<>>
    /\ ~crashed
    /\ LET id == EventQueue_pop(api_q).event
           kind == info[id].kind
       IN  /\ kind = "add_line" => appended < MaxAppend
           /\ api_q' = EventQueue_pop(api_q).queue
           /\ removed_api' = Append(removed_api, id)
           /\ cycle_log' = Append(cycle_log, id)
           /\ \E dies \in BOOLEAN : ScreenIs(run_task(Screen, kind, appended + 1, dies))
           /\ appended' = IF kind = "add_line" THEN appended + 1 ELSE appended
    /\ scen' = -2
    /\ UNCHANGED <<con_state, impl, waiter_state, notifier, sdl_q, sdl_mutex, api_mutex,
                   owner_pc, removed_sdl, discarded, pending_sdl, producerVars>>
    /\ UNCHANGED lineVars

NextApi ==
    \/ \E kind \in ApiTasks : ApiCall("api_thread", kind)
    \/ \E p \in Producers : SdlEventCallback(p)
    \/ \E p \in Producers : PushEnqueue(p)
    \/ \E p \in Producers : PushNotify(p)
    \/ WaitForEvents
    \/ ClearNotifier
    \/ DrainSdl
    \/ DrainSdlReturnKey
    \/ DrainApiTask
    \/ api_q = <<>> /\ DrainApi
    \/ CheckShutdown

(***************************************************************************)
(* split_entry_text on its own: every text of up to MaxLen characters at   *)
(* every width of WrapWidths.                                              *)
(***************************************************************************)
\* a word character, a blank and a newline
WrapChars == {"x", " ", "\n"}

\* viewport widths in pixels, from one character (char_width is 8) to three,
\* one of them no multiple of the character width
WrapWidths == {8, 12, 16, 24}

WrapTexts == UNION {[1..n -> WrapChars] : n \in 0..MaxLen}

\* no call of split_entry_text on its own is under way
\* the slots (ISlot*) handed out by connect and connect_later
Slots == 1..MaxSlots

\* the emitter before any slot is connected to it
InitNoSignal ==
    /\ slots_ = <<>>
    /\ disconnected_slots_ = <<>>
    /\ sig_undefined = FALSE
    /\ last_call = [s \in Slots |-> "none"]
    /\ invoked = <<>>

\* no call of utf8_strlen
InitNoUtf8 ==
    /\ utf_str = <<>>
    /\ utf_i = 0
    /\ utf_count = 0
    /\ utf_pc = "none"
    /\ utf_past = FALSE

InitNoWrap ==
    /\ wrap_text = <<>>
    /\ wrap_width = TheFont.char_width
    /\ wrap_lines = <<>>
    /\ wrap_done = FALSE

InitWrap ==
    /\ wrap_text \in WrapTexts
    /\ wrap_width \in WrapWidths
    /\ wrap_lines = <<>>
    /\ wrap_done = FALSE

\* split_entry_text(widget, entry, text) with the console's font
Wrap ==
    /\ ~wrap_done
    /\ wrap_done' = TRUE
    /\ wrap_lines' = split_entry_text(wrap_text, TheFont.char_width, wrap_width)
    /\ UNCHANGED <<wrap_text, wrap_width>>
    /\ UNCHANGED <<entries, num_lines, max_lines, scroll_value, viewport, font,
                   scrollbar, prompt, input_q, completed, inf_cast, appended,
                   dangling, crashed, scen>>
    /\ UNCHANGED <<selVars, sigVars, utfVars, dispVars, lineVars>>

NextWrap == Wrap

Init ==
    /\ InitScreen /\ InitDisp /\ InitLine /\ InitNoWrap /\ InitSel
    /\ InitNoSignal /\ InitNoUtf8

Next == NextScreen

Spec == Init /\ [][Next]_vars

SpecScroll == Init /\ [][NextScroll]_vars

\* the dispatcher does not touch the screen: one build's screen is enough
InitOneBuild == Init /\ inf_cast < 0 /\ prompt.history_idx = 0

SpecDisp == InitOneBuild /\ [][NextDisp]_vars

\* the rendezvous on its own
SpecLine == InitOneBuild /\ [][NextLine]_vars

\* split_entry_text on its own
InitOneWrap ==
    /\ InitScreen /\ InitDisp /\ InitLine /\ InitWrap /\ InitSel
    /\ InitNoSignal /\ InitNoUtf8
    /\ inf_cast < 0 /\ prompt.history_idx = 0

SpecWrap == InitOneWrap /\ [][NextWrap]_vars

\* the API tasks from their push to their run
SpecApi == InitOneBuild /\ [][NextApi]_vars

\* the prompt's line editor, for every value history_idx starts with
InitPrompt == Init /\ inf_cast < 0

SpecPrompt == InitPrompt /\ [][NextPrompt]_vars

\* the font size buttons
SpecFont == InitOneBuild /\ [][NextFont]_vars

\* Console_Destroy on every thread
SpecDestroy == InitOneBuild /\ [][NextDestroy]_vars

\* the text selection and the clipboard
SpecSel == InitOneBuild /\ [][NextSel]_vars

\* the console's life.  A thread that is inside a call and able to go on
\* does go on: the scheduler runs every thread, and the owner thread never
\* leaves Console_MainLoop and Console_Destroy.  No thread has to start a call.
SpecLife ==
    /\ InitOneBuild
    /\ [][NextLife]_vars
    /\ WF_vars(OwnerStep)
    /\ \A t \in Producers \cup Consumers : WF_vars(CallStep(t))

(***************************************************************************)
(* Properties of the scrollback store (Spec) and of the scroll offset      *)
(* (SpecScroll).                                                           *)
(***************************************************************************)
RECURSIVE SumSizes(_)
\* the sum of entry.size over a sequence of entries
SumSizes(es) == IF es = <<>> THEN 0 ELSE Head(es).size + SumSizes(Tail(es))

\* C1: after every completed mutation of the scrollback (append, resize
\* re-wrap, change of the limit) the line count num_lines is at most
\* max_lines.  Stated for runs in which no reference to a popped entry has
\* been used, so that the only question is whether eviction keeps the count
\* under the limit.
C1_LineCountWithinLimit ==
    (~dangling /\ ~crashed) => num_lines <= max_lines

\* C2: after any sequence of append, eviction, resize and clear operations
\* num_lines equals the sum of entry.size over the entries in the store.
C2_LineCountIsSumOfSizes ==
    ~crashed => num_lines = SumSizes(entries)

\* C3: eviction removes whole entries, oldest first: the store is always the
\* run of the most recently appended entries, newest first (ids appended,
\* appended - 1, ... with no gap), each entry holding all of its wrapped
\* lines; and in the scenario "limit MaxScrollback on a new console, then k
\* single-line appends" the store holds the last min(k, MaxScrollback)
\* entries and the line count is min(k, MaxScrollback): for the limit 3 and
\* appends a, b, c, d that is d, c, b and a count of 3.
C3_EvictsOldestWholeEntries ==
    ~crashed =>
        /\ \A i \in 1..Len(entries) :
              /\ entries[i].id = appended - (i - 1)
              /\ entries[i].size = Len(entries[i].lines)
        /\ Len(entries) <= appended
        /\ scen >= 0 =>
              /\ Len(entries) = Min(scen, MaxScrollback)
              /\ num_lines = Min(scen, MaxScrollback)

\* C3 witness: the limit was MaxScrollback, MaxScrollback + 1 single-line
\* entries were appended, and the first of them has been evicted
C3_Witness ==
    /\ scen = MaxScrollback + 1
    /\ Len(entries) = MaxScrollback
    /\ entries[1].id = MaxScrollback + 1
    /\ entries[Len(entries)].id = 2
    /\ num_lines = MaxScrollback

\* C4: after every operation the scroll offset satisfies
\* 0 <= scroll_value <= max(0, num_lines - 1).
C4_ScrollValueClamped ==
    ~crashed => (0 <= scroll_value /\ scroll_value <= Max(0, num_lines - 1))

(***************************************************************************)
(* Properties of the dispatcher (SpecDisp).                                *)
(***************************************************************************)
Range(seq) == {seq[i] : i \in DOMAIN seq}

Accepted == Range(accepted_sdl) \cup Range(accepted_api)

Removed == Range(removed_sdl) \cup Range(removed_api)

\* the items a MainLoop drain popped and ran
Executed == Removed \ discarded

\* how many times id occurs in seq
Count(id, seq) == Cardinality({i \in DOMAIN seq : seq[i] = id})

Rank(state) ==
    CASE state = "active" -> 0
      [] state = "shutdown" -> 1
      [] state = "inactive" -> 2

\* C5: no lost wakeup.  Whenever the owner is blocked in wait_for_events
\* (at notifier.wait with the notifier false), the sdl queue and the api
\* queue hold no item of a completed push: both are empty, but for an item
\* whose push is still inside its critical section between queue.push and
\* notifier = true, and that push is about to set the notifier.
C5_NoLostWakeup ==
    (owner_pc = "wait" /\ ~notifier) =>
        \A id \in Range(sdl_q) \cup Range(api_q) :
            \E p \in Producers : prod[p].pc = "pushed" /\ prod[p].id = id

\* C5 witness: the owner has run events and tasks and is blocked again with
\* the notifier false and both queues empty
C5_Witness ==
    /\ owner_pc = "wait"
    /\ ~notifier
    /\ removed_sdl # <<>>
    /\ Len(removed_api) >= 2
    /\ discarded = {}
    /\ sdl_q = <<>>
    /\ api_q = <<>>

\* C6, as the spec has it: an event or task pushed while the console is not
\* Active (Console_con::state, after Console_Shutdown) is dropped, so every
\* event or task that was put on a queue met the console Active.
C6_DroppedWhenConsoleNotActive ==
    \A id \in Accepted : info[id].kind # "wake" => info[id].con = "active"

\* C6, as the code has it: a push that finds the dispatcher's own state
\* (ExternalEventWaiter::state, flipped by the owner's shutdown()) not active
\* is dropped: the item is put on no queue and is never run or drained.
C6_DroppedWhenDispatcherNotActive ==
    \A id \in DOMAIN info :
        info[id].waiter # "active" =>
            /\ id \notin Accepted \cup Removed
            /\ id \notin Range(sdl_q) \cup Range(api_q)
            /\ \A p \in Producers : prod[p].id # id

\* C6 witness: a task pushed after the dispatcher was shut down has been
\* dropped, and a task pushed after Console_Shutdown but before that has run
C6_Witness ==
    /\ \E id \in DOMAIN info :
          /\ info[id].waiter = "shutdown"
          /\ info[id].kind = "task"
          /\ id \notin Accepted
          /\ \A p \in Producers : prod[p].pc = "idle"
    /\ \E id \in Executed : info[id].kind = "task" /\ info[id].con = "shutdown"

\* C7: the console state only moves Active -> ShuttingDown -> Inactive; no
\* step takes it back to an earlier state.  The step by which a new
\* Console_Create starts the console again is left out of the statement.
C7_StateNeverGoesBack ==
    [][owner_pc # "created" => Rank(con_state') >= Rank(con_state)]_vars

\* C8: dispatcher shutdown is atomic with respect to push.  While the
\* dispatcher state is shutdown no push is past its status test (none holds
\* a queue mutex on the way to queue.push), and from the return of
\* shutdown() until reset() sets the state active both queues are empty.
C8_ShutdownAtomic ==
    /\ waiter_state = "shutdown" =>
          \A p \in Producers : prod[p].pc \notin {"locked", "pushed"}
    /\ owner_pc \in {"inproc", "returned", "destroyed",
                     "reset_drain_sdl", "reset_drain_api", "reset_flip"} =>
          (waiter_state = "shutdown" /\ sdl_q = <<>> /\ api_q = <<>>)

\* C8 witness: shutdown() has returned; a push accepted before the flip was
\* removed by the drain, a push after the flip was rejected
C8_Witness ==
    /\ owner_pc = "returned"
    /\ waiter_state = "shutdown"
    /\ discarded # {}
    /\ \E id \in DOMAIN info : info[id].waiter = "shutdown" /\ id \notin Accepted
    /\ sdl_q = <<>> /\ api_q = <<>>

\* C9: each queue is FIFO (the items popped so far, in pop order, followed
\* by the items still queued, are the accepted items in acceptance order),
\* and within one MainLoop iteration no event runs after a task, and every
\* event that was queued when the iteration began to drain has run before
\* the first task does.
C9_FifoEventsBeforeTasks ==
    /\ accepted_sdl = removed_sdl \o sdl_q
    /\ accepted_api = removed_api \o api_q
    /\ \A i, j \in DOMAIN cycle_log :
          i < j => ~(info[cycle_log[i]].q = "api" /\ info[cycle_log[j]].q = "sdl")
    /\ (\E i \in DOMAIN cycle_log : info[cycle_log[i]].q = "api") =>
          Range(pending_sdl) \subseteq Range(cycle_log)

\* C9 witness: one iteration ran a pending event and then two tasks in the
\* order they were accepted
C9_Witness ==
    /\ Len(cycle_log) = 3
    /\ pending_sdl # <<>>
    /\ info[cycle_log[1]].q = "sdl"
    /\ info[cycle_log[2]].q = "api"
    /\ info[cycle_log[3]].q = "api"
    /\ accepted_api = <<cycle_log[2], cycle_log[3]>>

\* C10, as the spec has it: no accepted item is removed from a queue without
\* being run.
C10_NothingRemovedUnexecuted ==
    discarded = {}

\* C10, as the code has it: every accepted item is on its queue or has left
\* it exactly once, either popped and run by MainLoop or popped and dropped
\* unrun by the drain() of shutdown() and reset(); no item leaves twice, and
\* once shutdown() has returned no accepted item is left on a queue.
C10_RemovedExactlyOnce ==
    /\ \A id \in Accepted :
          Count(id, removed_sdl \o removed_api) + Count(id, sdl_q \o api_q) = 1
    /\ Removed \subseteq Accepted
    /\ discarded \subseteq Removed
    /\ Range(cycle_log) \cap discarded = {}
    /\ owner_pc \in {"inproc", "returned", "destroyed"} => Accepted = Removed

\* C10 witness: shutdown() has returned; one accepted task was run by
\* MainLoop and another, accepted just before the flip, was dropped by drain()
C10_Witness ==
    /\ owner_pc = "returned"
    /\ \E id \in Executed : info[id].kind = "task"
    /\ \E id \in discarded : info[id].kind = "task"

(***************************************************************************)
(* Properties of the line rendezvous (SpecLine).                           *)
(***************************************************************************)
\* the lines the finished wait_get calls returned, in the order they returned
LinesGot ==
    LET IsLine(g) == g.kind = "line"
        gs == SelectSeq(got, IsLine)
    IN  [i \in 1..Len(gs) |-> gs[i].buf]

\* C11: once InputLineWaiter::shutdown() has been called no wait_get call
\* blocks: a call parked in completed.wait(false), whether it was already
\* blocked or came later, finds the completed flag set and so returns.
C11_ShutdownReleasesEveryCall ==
    line_shut => \A c \in Consumers : cons[c] = "wait" => completed

\* C12: wait_get returns the empty sentinel only when shutdown() has been
\* called; without a shutdown every call that returns hands out a pushed line.
C12_EmptyOnlyAfterShutdown ==
    \A i \in DOMAIN got : got[i].kind = "empty" => got[i].shut

\* C13: the rendezvous is a lossless FIFO.  The lines returned so far, in the
\* order they were returned, followed by the lines still queued, are exactly
\* the lines pushed, in push order: none is lost, duplicated or overtaken, a
\* line pushed with no consumer waiting stays queued, and a call takes at most
\* one line.
C13_LosslessFifo ==
    /\ LinesGot \o input_q = lines_pushed
    /\ Len(LinesGot) <= Len(got)

\* C13 witness: two different lines were pushed, and two calls of one thread
\* have returned them in push order, leaving the queue empty.
C13_Witness ==
    /\ Len(lines_pushed) = 2
    /\ lines_pushed[1] # lines_pushed[2]
    /\ Len(got) = 2
    /\ got[1].c = got[2].c
    /\ LinesGot = lines_pushed
    /\ input_q = <<>>

(***************************************************************************)
(* Properties of the console's life (SpecLife).                            *)
(***************************************************************************)
\* C14: a Console_GetLine call released because of shutdown returns a value
\* that no delivery of a submitted line returns, an empty line included.
C14_TerminationDistinguishable ==
    \A i, j \in DOMAIN got :
        (got[i].kind = "empty" /\ got[i].shut /\ got[j].kind = "line")
            => got[i].ret # got[j].ret

C16_ShutdownCompletes ==
    (con_state = "shutdown")
        ~> (/\ owner_pc \in {"returned", "destroyed"}
            /\ \A c \in Consumers : cons[c] = "idle")

\* C16 witness: Console_MainLoop has returned after a shutdown that found a
\* thread blocked in Console_GetLine and released it.
C16_Witness ==
    /\ owner_pc = "returned"
    /\ con_state = "shutdown"
    /\ \E i \in DOMAIN got : got[i].kind = "empty" /\ got[i].shut
    /\ \A c \in Consumers : cons[c] = "idle"

(***************************************************************************)
(* Properties of the API tasks (SpecApi).                                  *)
(***************************************************************************)
\* C17: the scrollback entries, the scroll offset and the prompt state are
\* changed only by a step of the owner thread draining its queues in
\* Console_MainLoop; a step of a thread inside Console_AddLine,
\* Console_Clear, Console_SetPrompt or Console_SetScrollback (a step that
\* moves a producer) changes none of them.
C17_OnlyOwnerMutates ==
    [][(entries' # entries \/ num_lines' # num_lines \/ scroll_value' # scroll_value
            \/ prompt' # prompt)
        => (owner_pc \in {"drain_sdl", "drain_api"} /\ UNCHANGED producerVars)]_vars

\* C17 witness: tasks queued by Console_AddLine and Console_SetPrompt on the
\* API thread have been run by the owner, and the store and the prompt show it.
C17_Witness ==
    /\ \E id \in Executed : info[id].kind = "add_line"
    /\ \E id \in Executed : info[id].kind = "set_prompt"
    /\ entries # <<>>
    /\ prompt.prompt_text = <<"$", " ">>

(***************************************************************************)
(* Properties of split_entry_text (SpecWrap).                              *)
(***************************************************************************)
\* the characters of text from index a to index b (0-based, inclusive)
Slice(text, a, b) == SubSeq(text, a + 1, b + 1)

RECURSIVE Rejoin(_, _, _)
\* the lines from the i-th on put together again: nothing goes between two
\* lines that are adjacent in the text, and one character, the one after the
\* earlier line, goes between two lines that have text stripped between them
Rejoin(text, lines, i) ==
    IF i > Len(lines) THEN <<>>
    ELSE Slice(text, lines[i].start_index, lines[i].end_index)
         \o (IF i < Len(lines) /\ lines[i + 1].start_index > lines[i].end_index + 1
             THEN <<text[lines[i].end_index + 2]>> ELSE <<>>)
         \o Rejoin(text, lines, i + 1)

\* C18: wrap round trip.  The lines of split_entry_text, concatenated with
\* one stripped delimiter put back between consecutive lines that were split
\* on a stripped character and nothing between lines split elsewhere, give
\* the text back.
C18_WrapRoundTrip ==
    wrap_done => Rejoin(wrap_text, wrap_lines, 1) = wrap_text

\* C19: every line of split_entry_text fits the column budget: its length
\* times char_width is at most the viewport width.
C19_LinesFitWidth ==
    wrap_done =>
        \A i \in DOMAIN wrap_lines :
            (wrap_lines[i].end_index - wrap_lines[i].start_index + 1)
                * TheFont.char_width <= wrap_width

\* C20: the lines of split_entry_text are ordered and do not overlap: each
\* has start <= end < text length, each starts strictly after the end of the
\* one before, and the i-th line carries index i (counted from 0).
C20_SegmentsOrdered ==
    wrap_done =>
        \A i \in DOMAIN wrap_lines :
            /\ wrap_lines[i].start_index >= 0
            /\ wrap_lines[i].start_index <= wrap_lines[i].end_index
            /\ wrap_lines[i].end_index < Len(wrap_text)
            /\ i > 1 => wrap_lines[i].start_index > wrap_lines[i - 1].end_index
            /\ wrap_lines[i].index = i - 1

\* C20 witness: a text was split into three lines or more, with one break
\* after a blank and one in the middle of a word.
C20_Witness ==
    /\ wrap_done
    /\ Len(wrap_lines) >= 3
    /\ \E i \in 1..(Len(wrap_lines) - 1) :
          wrap_text[wrap_lines[i].end_index + 1] = " "
    /\ \E j \in 1..(Len(wrap_lines) - 1) :
          /\ wrap_text[wrap_lines[j].end_index + 1] = "x"
          /\ wrap_text[wrap_lines[j + 1].start_index + 1] = "x"

\* the characters of the i-th line of split_entry_text
LineText(i) == Slice(wrap_text, wrap_lines[i].start_index, wrap_lines[i].end_index)

\* C21: a newline or carriage return closes the segment exclusive of the
\* break character: no line of split_entry_text contains a newline or a
\* carriage return, and no line is empty.
C21_NoBreakCharInLines ==
    wrap_done =>
        \A i \in DOMAIN wrap_lines :
            /\ \A k \in DOMAIN LineText(i) : ~IsNewline(LineText(i)[k])
            /\ LineText(i) # <<>>

\* C22: word-boundary wrapping.  A line is hard-broken in the middle of a
\* word (it ends at a word character before the end of the text) only when
\* no blank has been seen since the start of its segment, a blank at index 0
\* of the text included: such a line holds no blank.
C22_HardBreakOnlyWithoutBlank ==
    wrap_done =>
        \A i \in DOMAIN wrap_lines :
            (/\ wrap_lines[i].end_index < Len(wrap_text) - 1
             /\ ~IsBlank(wrap_text[wrap_lines[i].end_index + 1])
             /\ ~IsNewline(wrap_text[wrap_lines[i].end_index + 1]))
                => \A k \in DOMAIN LineText(i) : ~IsBlank(LineText(i)[k])

(***************************************************************************)
(* Properties of the resize re-wrap and of the scroll commands.            *)
(***************************************************************************)
\* C23: the resize re-wrap is idempotent.  After a step of on_resize, a
\* second on_resize with the same viewport leaves every entry with the same
\* wrapped lines (count, start and end indices) and the same num_lines.
C23_RewrapIdempotent ==
    [][\A size \in WindowSizes :
          WindowResized(size.w, size.h)
              => LET again == MainWindow_on_resize(Screen', size.w, size.h, toolbar_h)
                 IN  /\ again.entries = entries'
                     /\ again.num_lines = num_lines']_vars

\* C23 witness: the window was resized to its minimum size over a store of
\* two entries or more, one of them re-wrapped into two lines.
C23_Witness ==
    /\ viewport.w = 32
    /\ Len(entries) >= 2
    /\ \E i \in DOMAIN entries : entries[i].size = 2
    /\ num_lines >= 3

\* clamp(v, lo, hi)
Clamp(v, lo, hi) == Min(Max(v, lo), hi)

\* C24: each scroll command clamps.  A wheel step up or down moves the scroll
\* offset by 1 and a page-up or page-down key by floor(rows / 2), and the
\* offset it leaves is clamp(old +/- step, 0, max(0, num_lines - 1)), on an
\* empty store too.
C24_ScrollCommandsClamp ==
    [][/\ \A y \in {-1, 1} :
             MouseWheel(y)
                 => scroll_value' = Clamp(scroll_value + y, 0, Max(0, num_lines - 1))
       /\ KeyDown("PAGEUP")
             => scroll_value' = Clamp(scroll_value + TruncDiv(rows(Screen), 2),
                                      0, Max(0, num_lines - 1))
       /\ KeyDown("PAGEDOWN")
             => scroll_value' = Clamp(scroll_value - TruncDiv(rows(Screen), 2),
                                      0, Max(0, num_lines - 1))]_vars

(***************************************************************************)
(* Properties of the text selection and the clipboard (SpecSel).           *)
(***************************************************************************)
RECURSIVE joined_by_entry(_, _, _, _)
\* the pieces put together with a line break only between two pieces of
\* different entries that both hold text; last is the entry of the latest
\* piece that held text
joined_by_entry(ret, pieces, k, last) ==
    IF k > Len(pieces) THEN ret
    ELSE IF pieces[k].text = <<>> THEN joined_by_entry(ret, pieces, k + 1, last)
    ELSE joined_by_entry((IF ret # <<>> /\ pieces[k].id # last
                          THEN ret \o <<"\n">> ELSE ret) \o pieces[k].text,
                         pieces, k + 1, pieces[k].id)

\* C25: in the text copy_to_clipboard builds, a line break stands only
\* between two different entries that both gave text: none leads, none
\* trails, and none stands between two wrapped lines of one entry.
C25_SeparatorOnlyBetweenEntries ==
    [][CopyToClipboard
          => clipboard' = joined_by_entry(<<>>, pieces_to_copy(Screen, Selection), 1, 0)]_vars

\* the rects of the selection as it stands
SelectedRects == get_highlighted_rects(Screen, Selection)

\* the text of the line that the last frame drew as s
ShownText(s) ==
    LET ls == lines_oldest_first(entries, Len(entries))
        is_s(l) == l.id = s.id /\ l.index = s.index
    IN  SelectSeq(ls, is_s)[1].text

\* C26: copy_to_clipboard takes text only from lines that are drawn at a
\* selected row, and a single-row selection that covers one drawn line from
\* its first to its last character copies exactly that line's text.
C26_CopiesOnlyDrawnLines ==
    [][CopyToClipboard =>
          /\ \A k \in DOMAIN pieces_to_copy(Screen, Selection) :
                \E s \in shown :
                    /\ s.id = pieces_to_copy(Screen, Selection)[k].id
                    /\ s.index = pieces_to_copy(Screen, Selection)[k].index
                    /\ \E r \in DOMAIN SelectedRects : SelectedRects[r].y = s.y
          /\ \A s \in shown :
                (/\ Len(SelectedRects) = 1
                 /\ SelectedRects[1].y = s.y
                 /\ SelectedRects[1].x = 0
                 /\ SelectedRects[1].w >= Len(ShownText(s)) * font.char_width)
                    => clipboard' = ShownText(s)]_vars

\* C27: a drag whose points are at most one line height apart vertically
\* gives one rect, from min(x) snapped down to max(x) snapped up to the
\* character width, whichever way the drag went; a taller drag gives one
\* rect for each row from the top point's row down to the row that ends at
\* or after the bottom point, the rows in between as wide as the viewport.
C27_HighlightedRects ==
    LET lh == line_height_with_spacing(font)
        s == mouse_motion_start
        e == mouse_motion_end
        top == Min(s.y, e.y)
        bottom == Max(s.y, e.y)
        swapped == [Selection EXCEPT !.mouse_motion_start = e, !.mouse_motion_end = s]
        r == SelectedRects
    IN  (s.y >= 0 /\ e.y >= 0) =>
            IF bottom - top <= lh
            THEN /\ Len(r) = 1
                 /\ r[1].x = (Min(s.x, e.x) \div font.char_width) * font.char_width
                 /\ r[1].x <= Min(s.x, e.x)
                 /\ r[1].x + r[1].w >= Max(s.x, e.x)
                 /\ r[1].x + r[1].w < Max(s.x, e.x) + font.char_width
                 /\ (r[1].x + r[1].w) % font.char_width = 0
                 /\ get_highlighted_rects(Screen, swapped) = r
            ELSE /\ Len(r) = ((bottom + lh - 1) \div lh) - (top \div lh)
                 /\ \A i \in DOMAIN r :
                       /\ r[i].y = (top \div lh) * lh + (i - 1) * lh
                       /\ r[i].h = lh
                       /\ (1 < i /\ i < Len(r)) => (r[i].x = 0 /\ r[i].w = viewport.w)

\* C27 witness: a drag from right to left along one row, its rect two
\* characters wide
C27_Witness ==
    /\ mouse_motion_start.y >= 0
    /\ mouse_motion_end.y >= 0
    /\ mouse_motion_end.x < mouse_motion_start.x
    /\ mouse_motion_end.y = mouse_motion_start.y
    /\ Len(SelectedRects) = 1
    /\ SelectedRects[1].w = 2 * font.char_width

(***************************************************************************)
(* Properties of submitting the input line (SpecLine).                     *)
(***************************************************************************)
\* C28: RETURN consumes the prompt input.  The line pushed to the rendezvous
\* is the text in the prompt, the entry echoed to the scrollback is
\* prompt_text followed by that text, afterwards the prompt input is empty
\* with the cursor at 0, and the lines wait_get returns are those texts in
\* the order they were submitted.
C28_SubmitConsumesInput ==
    [][/\ (ReturnKey /\ ~crashed')
            => /\ input_q' = Append(input_q, prompt_input(Screen))
               /\ lines_pushed' = Append(lines_pushed, prompt_input(Screen))
               /\ entries'[1].type = "input"
               /\ entries'[1].text = prompt.prompt_text \o prompt_input(Screen)
               /\ prompt_input(Screen') = <<>>
               /\ prompt'.cursor = 0
       /\ LinesGot' \o input_q' = lines_pushed']_vars

\* C28 witness: the typed line "x" was submitted, echoed behind the prompt
\* text and returned by wait_get, and the prompt is empty again.
C28_Witness ==
    /\ \E i \in DOMAIN got : got[i].kind = "line" /\ got[i].buf = <<"x">>
    /\ \E i \in DOMAIN entries : entries[i].text = <<">", " ", "x">>
    /\ prompt_input(Screen) = <<>>
    /\ prompt.cursor = 0

(***************************************************************************)
(* Properties of Console_Destroy (SpecDestroy).                            *)
(***************************************************************************)
\* the record of a Console_Destroy call of thread t that returned ret
DestroyReturned(t, ret) ==
    got' = Append(got, [c |-> t, ret |-> ret, kind |-> "destroy", buf |-> <<>>,
                        shut |-> line_shut])

\* C29: Console_Destroy tears the console down only on the render thread.
\* A call from another thread that finds the state not inactive, the state
\* being not inactive at its thread test as well, returns false and leaves
\* the state and impl as they were; a call from another thread that finds
\* the state inactive returns true and leaves impl as it was; and once the
\* render thread's Console_Destroy has succeeded, with no Console_Create
\* since, every further Console_Destroy call, on the render thread or on
\* another one, returns true.
C29_DestroyOnlyOnRenderThread ==
    [][/\ \A c \in Consumers :
            /\ (DestroyThreadCheck(c) /\ con_state # "inactive")
                  => /\ DestroyReturned(c, 0)
                     /\ ~crashed'
                     /\ UNCHANGED <<con_state, impl>>
            /\ (DestroyCall(c) /\ con_state = "inactive")
                  => /\ DestroyReturned(c, 1)
                     /\ UNCHANGED <<con_state, impl>>
            /\ (DestroyCall(c) /\ owner_pc = "destroyed")
                  => DestroyReturned(c, 1)
       /\ ConsoleDestroyAgain
             => /\ DestroyReturned("render", 1)
                /\ ~crashed']_vars

(***************************************************************************)
(* Properties of LogScreen::clear (SpecScroll).                            *)
(***************************************************************************)
\* C30: when the task that Console_Clear queued has run, the store has no
\* entries, num_lines is 0 and the scroll offset is 0, and the prompt text,
\* the current input, the input history and max_lines are what they were.
C30_ClearEmptiesStore ==
    [][Clear => /\ entries' = <<>>
                /\ num_lines' = 0
                /\ scroll_value' = 0
                /\ prompt'.prompt_text = prompt.prompt_text
                /\ prompt_input(Screen') = prompt_input(Screen)
                /\ prompt'.history = prompt.history
                /\ max_lines' = max_lines]_vars

\* the store cleared after two entries were appended, with text typed at
\* the prompt
C30_Witness ==
    /\ appended = MaxScrollAppend
    /\ entries = <<>>
    /\ num_lines = 0
    /\ scroll_value = 0
    /\ prompt_input(Screen) = <<"x">>

(***************************************************************************)
(* Properties of create_entry (Spec).                                      *)
(***************************************************************************)
\* C31: whatever max_lines is and whatever the store holds, the entry that
\* create_entry has just created is the front of the store when the append
\* is over, holding the appended text: it is never the entry evicted.
C31_NewEntryIsHead ==
    [][\A text \in Texts :
          AddLine(text) => /\ entries' # <<>>
                           /\ entries'[1].id = appended + 1
                           /\ entries'[1].text = text]_vars

(***************************************************************************)
(* Properties of the prompt's line editor (SpecPrompt).                    *)
(***************************************************************************)
\* C32: once a line has been submitted, an UP or DOWN key that selects a
\* history line never selects one of zero length, and it leaves the cursor
\* at the length of the line it selected.
C32_HistorySkipsEmpty ==
    [][\A sym \in {"UP", "DOWN"} :
          (/\ KeyDown(sym)
           /\ appended > 0
           /\ ~crashed'
           /\ prompt'.history_idx # prompt.history_idx)
              => /\ Len(prompt_input(Screen')) > 0
                 /\ prompt'.cursor = Len(prompt_input(Screen'))]_vars

\* C33: the input history is append-only.  Whatever is typed, erased,
\* selected or submitted, the history never gets shorter and every item
\* below its last one, the line being typed, stays as it was appended.
C33_HistoryAppendOnly ==
    [][/\ Len(prompt'.history) >= Len(prompt.history)
       /\ \A i \in 1..(Len(prompt.history) - 1) :
             prompt'.history[i] = prompt.history[i]]_vars

(***************************************************************************)
(* Properties of the wrapped lines under a change of the wrapping          *)
(* parameters (SpecFont).                                                  *)
(***************************************************************************)
\* the wrapped lines a and b are the same ranges of the text
same_segments(a, b) ==
    /\ Len(a) = Len(b)
    /\ \A k \in DOMAIN a : /\ a[k].index = b[k].index
                           /\ a[k].start_index = b[k].start_index
                           /\ a[k].end_index = b[k].end_index

\* C34: after every window resize and every change of the font size, the
\* wrapped lines of every entry are what split_entry_text gives for the
\* entry's text at the viewport width and character width now in force.
C34_LinesNeverStale ==
    [][(\/ \E size \in WindowSizes : WindowResized(size.w, size.h)
        \/ \E up \in BOOLEAN : FontSizeClicked(up))
          => \A i \in DOMAIN entries' :
                same_segments(entries'[i].lines,
                              split_entry_text(entries'[i].text,
                                               font'.char_width, viewport'.w))]_vars

(***************************************************************************)
(* Properties of submitted lines across the shutdown (SpecLife).           *)
(***************************************************************************)
\* C35: a submitted line that has not been consumed is not lost.  The
\* RETURN key's push adds its line to the queue whatever the console's
\* state is, and a Console_GetLine call that finds a line queued goes on to
\* take the oldest one and never returns the termination result instead.
C35_QueuedLineNotLost ==
    [][/\ (DrainSdlReturnKey /\ ~crashed')
             => input_q' = Append(input_q, prompt_input(Screen))
       /\ \A c \in Consumers :
             /\ (ConsoleGetLine(c) /\ input_q # <<>>)
                   => (cons'[c] = "enter" /\ got' = got)
             /\ (WaitGetEnter(c) /\ input_q # <<>>)
                   => /\ Len(got') = Len(got) + 1
                      /\ got'[Len(got')].kind = "line"
                      /\ got'[Len(got')].buf = Head(input_q)
                      /\ input_q' = Tail(input_q)]_vars

\* render passes between appends, scrolling and window resizes
NextRender ==
    \/ \E text \in Texts : appended < MaxScrollAppend /\ AddLine(text)
    \/ \E y \in {-1, 1} : MouseWheel(y)
    \/ \E size \in WindowSizes : WindowResized(size.w, size.h)
    \/ RenderFrame

SpecRender == InitOneBuild /\ [][NextRender]_vars

(***************************************************************************)
(* The render pass over the rows of the screen                             *)
(***************************************************************************)
RECURSIVE render_entry_from_scroll_row(_, _, _, _, _)
\* a render_entry that skips the rows below scroll_value only, drawing the row
\* scroll_value itself
render_entry_from_scroll_row(S, e, k, st, max_row) ==
    IF k = 0 THEN st
    ELSE LET counted == [st EXCEPT !.row_counter = st.row_counter + 1]
         IN  IF counted.row_counter < S.scroll_value
             THEN render_entry_from_scroll_row(S, e, k - 1, counted, max_row)
             ELSE IF counted.row_counter > max_row
             THEN counted
             ELSE LET y == st.ypos - line_height_with_spacing(S.font)
                  IN  render_entry_from_scroll_row(S, e, k - 1,
                          [ypos |-> y, row_counter |-> counted.row_counter,
                           drawn |-> Append(st.drawn, [entry |-> e, line |-> k, y |-> y])],
                          max_row)

RECURSIVE render_entry(_, _, _, _, _)
\* LogScreen::render_entry from the k-th line of the entry e downwards (the
\* reverse iterator), with st the ypos and row_counter it has by reference
\* and the lines drawn so far; e is 0 for the prompt's entry
render_entry(S, e, k, st, max_row) ==
    IF k = 0 THEN st
    ELSE LET counted == [st EXCEPT !.row_counter = st.row_counter + 1]
         IN  IF counted.row_counter <= S.scroll_value
             THEN render_entry(S, e, k - 1, counted, max_row)
             ELSE IF counted.row_counter > max_row
             THEN counted
             ELSE LET y == st.ypos - line_height_with_spacing(S.font)
                  IN  render_entry(S, e, k - 1,
                          [ypos |-> y, row_counter |-> counted.row_counter,
                           drawn |-> Append(st.drawn, [entry |-> e, line |-> k, y |-> y])],
                          max_row)

RECURSIVE render_entries(_, _, _, _)
\* the loop of render_lines over the deque, from the entry at position i
render_entries(S, i, st, max_row) ==
    IF i > Len(S.entries) THEN st
    ELSE render_entries(S, i + 1,
             render_entry(S, i, Len(S.entries[i].lines), st, max_row), max_row)

\* LogScreen::render_lines: the lines font->render is called for, in order,
\* each with the y it is drawn at
render_lines(S) ==
    LET max_row == rows(S) + S.scroll_value
        first == render_entry(S, 0, prompt_rows(S),
                     [ypos |-> S.viewport.h, row_counter |-> 0, drawn |-> <<>>],
                     max_row)
    IN  render_entries(S, 1, first, max_row).drawn

\* the display row of a line: 1 is the last line of the prompt
display_row(S, e, k) ==
    IF e = 0 THEN prompt_rows(S) - k + 1 ELSE row_counter(S, e, k)

\* every line of the screen, as the pair of its entry and its position
display_lines(S) ==
    {<<0, k>> : k \in 1..prompt_rows(S)}
        \cup UNION {{<<i, k>> : k \in DOMAIN S.entries[i].lines} : i \in DOMAIN S.entries}

\* C36: a render pass draws exactly the lines whose display row r has
\* scroll_value < r <= scroll_value + rows(), newest row first, at most rows()
\* of them, the first one line height above the bottom of the viewport and
\* each next one a line height above the one before; the entries' part of it
\* is the frame that render_frame shows
C36_VisibleWindow ==
    ~crashed =>
        LET drawn == render_lines(Screen)
            lh    == line_height_with_spacing(Screen.font)
        IN  /\ {<<drawn[j].entry, drawn[j].line>> : j \in DOMAIN drawn}
                  = {l \in display_lines(Screen) :
                        /\ Screen.scroll_value < display_row(Screen, l[1], l[2])
                        /\ display_row(Screen, l[1], l[2])
                              <= Screen.scroll_value + rows(Screen)}
            /\ Len(drawn) <= rows(Screen)
            /\ \A j \in DOMAIN drawn :
                  /\ drawn[j].y = Screen.viewport.h - j * lh
                  /\ j > 1 => display_row(Screen, drawn[j].entry, drawn[j].line)
                                = 1 + display_row(Screen, drawn[j - 1].entry,
                                                  drawn[j - 1].line)
            /\ {[id |-> Screen.entries[drawn[j].entry].id,
                 index |-> Screen.entries[drawn[j].entry].lines[drawn[j].line].index,
                 y |-> drawn[j].y] : j \in {n \in DOMAIN drawn : drawn[n].entry > 0}}
                  = frame(Screen)

\* a pass over a screen scrolled up, with rows below the window, rows in it
\* and rows above it
C36_Witness ==
    /\ ~crashed
    /\ Screen.scroll_value > 0
    /\ render_lines(Screen) # <<>>
    /\ shown # {}
    /\ shown = frame(Screen)
    /\ \E l \in display_lines(Screen) :
          display_row(Screen, l[1], l[2]) > Screen.scroll_value + rows(Screen)

(***************************************************************************)
(* Properties of the prompt's cursor and history index (SpecPrompt)        *)
(***************************************************************************)
\* C37: after every sequence of text input, paste, BACKSPACE, LEFT, RIGHT,
\* HOME, END, history UP and DOWN and RETURN, the prompt's cursor is at least
\* 0 and at most the length of the current input
C37_CursorInInput ==
    ~crashed => /\ 0 <= prompt.cursor
                /\ prompt.cursor <= Len(prompt_input(Screen))

\* a line recalled from the history with the cursor moved inside it
C37_Witness ==
    /\ ~crashed
    /\ Len(prompt.history) > 1
    /\ prompt.input < Len(prompt.history)
    /\ 0 < prompt.cursor
    /\ prompt.cursor < Len(prompt_input(Screen))

\* C38: from construction on, history_idx is an index into history, the
\* current input is history[history_idx], and history navigation selects no
\* index outside the history
C38_HistoryIdxValid ==
    ~crashed => /\ 0 <= prompt.history_idx
                /\ prompt.history_idx <= Len(prompt.history) - 1
                /\ prompt.input = prompt.history_idx + 1

(***************************************************************************)
(* SignalEmitter: the slots of one event type                              *)
(***************************************************************************)
\* the two containers of one event type
Emitter == [slots_ |-> slots_, disconnected_slots_ |-> disconnected_slots_]

\* a unique_ptr that has been moved from
moved_from == 0

\* std::ranges::find_if(container, s.get() == slot): the position, 0 for end()
find_slot(container, slot) ==
    IF \E i \in DOMAIN container : container[i] = slot
    THEN CHOOSE i \in DOMAIN container :
             /\ container[i] = slot
             /\ \A j \in 1..(i - 1) : container[j] # slot
    ELSE 0

\* std::vector::erase(it)
erase_at(container, it) ==
    SubSeq(container, 1, it - 1) \o SubSeq(container, it + 1, Len(container))

\* the slots made so far
created(E) == (Range(E.slots_) \cup Range(E.disconnected_slots_)) \ {moved_from}

\* SignalEmitter::connect
SignalEmitter_connect(E, slot) ==
    [E EXCEPT !.slots_ = Append(E.slots_, slot)]

\* SignalEmitter::connect_later
SignalEmitter_connect_later(E, slot) ==
    [E EXCEPT !.disconnected_slots_ = Append(E.disconnected_slots_, slot)]

\* SignalEmitter::disconnect: the emitters it can leave, each with whether
\* the call was undefined. It looks the slot up in disconnected_slots_. Not
\* found there, it does nothing. Found, it appends the moved pointer to the
\* container it is iterating and erases from slots_ with an iterator of
\* disconnected_slots_: slots_ is left as it was or loses an element
SignalEmitter_disconnect(E, slot) ==
    LET it == find_slot(E.disconnected_slots_, slot)
        moved == Append([E.disconnected_slots_ EXCEPT ![it] = moved_from], slot)
    IN  IF it = 0 THEN {[emitter |-> E, undefined |-> FALSE]}
        ELSE {[emitter |-> [slots_ |-> kept, disconnected_slots_ |-> moved],
               undefined |-> TRUE] :
                 kept \in {E.slots_} \cup
                          {erase_at(E.slots_, i) : i \in DOMAIN E.slots_}}

\* SignalEmitter::reconnect
SignalEmitter_reconnect(E, slot) ==
    LET it == find_slot(E.disconnected_slots_, slot)
    IN  IF it = 0 THEN E
        ELSE [slots_ |-> Append(E.slots_, E.disconnected_slots_[it]),
              disconnected_slots_ |-> erase_at(E.disconnected_slots_, it)]

\* SignalEmitter::is_connected
SignalEmitter_is_connected(E, slot) ==
    \E i \in DOMAIN E.slots_ : E.slots_[i] = slot

\* SignalEmitter::emit: the slots invoked, in order
SignalEmitter_emit(E) == E.slots_

EmitterIs(E) ==
    /\ slots_' = E.slots_
    /\ disconnected_slots_' = E.disconnected_slots_

\* what a call on the emitter leaves alone
SignalFrame ==
    UNCHANGED <<entries, num_lines, max_lines, scroll_value, viewport, font,
                scrollbar, prompt, input_q, completed, inf_cast, appended,
                dangling, crashed, scen, wrapVars, selVars, utfVars, dispVars,
                lineVars>>

\* connect<EventType>(event_type, func) making the slot
Connect(slot) ==
    /\ ~sig_undefined
    /\ slot \notin created(Emitter)
    /\ \A s \in Slots : s < slot => s \in created(Emitter)
    /\ EmitterIs(SignalEmitter_connect(Emitter, slot))
    /\ last_call' = [last_call EXCEPT ![slot] = "connect"]
    /\ UNCHANGED <<sig_undefined, invoked>>
    /\ SignalFrame

\* connect_later<EventType>(event_type, func) making the slot
ConnectLater(slot) ==
    /\ ~sig_undefined
    /\ slot \notin created(Emitter)
    /\ \A s \in Slots : s < slot => s \in created(Emitter)
    /\ EmitterIs(SignalEmitter_connect_later(Emitter, slot))
    /\ last_call' = [last_call EXCEPT ![slot] = "connect_later"]
    /\ UNCHANGED <<sig_undefined, invoked>>
    /\ SignalFrame

\* Slot::disconnect
SlotDisconnect(slot) ==
    /\ ~sig_undefined
    /\ slot \in created(Emitter)
    /\ \E out \in SignalEmitter_disconnect(Emitter, slot) :
          /\ EmitterIs(out.emitter)
          /\ sig_undefined' = out.undefined
    /\ last_call' = [last_call EXCEPT ![slot] = "disconnect"]
    /\ UNCHANGED invoked
    /\ SignalFrame

\* Slot::connect
SlotConnect(slot) ==
    /\ ~sig_undefined
    /\ slot \in created(Emitter)
    /\ EmitterIs(SignalEmitter_reconnect(Emitter, slot))
    /\ last_call' = [last_call EXCEPT ![slot] = "reconnect"]
    /\ UNCHANGED <<sig_undefined, invoked>>
    /\ SignalFrame

\* emit(event) of the event type
SignalEmit ==
    /\ ~sig_undefined
    /\ invoked' = SignalEmitter_emit(Emitter)
    /\ UNCHANGED <<slots_, disconnected_slots_, sig_undefined, last_call>>
    /\ SignalFrame

NextSignal ==
    \/ \E slot \in Slots : Connect(slot)
    \/ \E slot \in Slots : ConnectLater(slot)
    \/ \E slot \in Slots : SlotDisconnect(slot)
    \/ \E slot \in Slots : SlotConnect(slot)
    \/ SignalEmit

SpecSignal == InitOneBuild /\ [][NextSignal]_vars

(***************************************************************************)
(* Properties of the signal slots (SpecSignal)                             *)
(***************************************************************************)
\* C39: whatever sequence of connect, connect_later, disconnect and
\* reconnect calls is made, every slot is in exactly one of the connected
\* and disconnected lists; after disconnect(slot) is_connected(slot) is
\* false and emit does not invoke the slot; after a following connect(slot)
\* emit invokes it again
C39_SlotConnection ==
    [][~sig_undefined' =>
          /\ \A slot \in created(Emitter)' :
                /\ Cardinality({i \in DOMAIN slots_' : slots_'[i] = slot})
                     + Cardinality({i \in DOMAIN disconnected_slots_' :
                                        disconnected_slots_'[i] = slot}) = 1
                /\ last_call'[slot] = "disconnect"
                      => ~SignalEmitter_is_connected(Emitter', slot)
          /\ SignalEmit =>
                \A slot \in created(Emitter) :
                    /\ last_call[slot] = "disconnect" => slot \notin Range(invoked')
                    /\ last_call[slot] = "reconnect" => slot \in Range(invoked')]_vars

(***************************************************************************)
(* utf8_strlen on a NUL-terminated byte string                             *)
(***************************************************************************)
\* 'A', the lead byte of a 2-byte sequence, a continuation byte, and the lead
\* bytes of a 3-byte and of a 4-byte sequence
Utf8Bytes == {65, 195, 169, 226, 240}

\* the strings handed to utf8_strlen, without their terminating NUL
Utf8Strings == UNION {[1..n -> Utf8Bytes] : n \in 0..MaxBytes}

\* byte & mask for the masks 0x80, 0xE0, 0xF0 and 0xF8, which clear low bits
and_mask(byte, mask) == (byte \div (256 - mask)) * (256 - mask)

\* how far one pass of the loop of utf8_strlen moves i on
utf8_advance(byte) ==
    IF and_mask(byte, 128) = 0 THEN 1
    ELSE IF and_mask(byte, 224) = 192 THEN 2
    ELSE IF and_mask(byte, 240) = 224 THEN 3
    ELSE IF and_mask(byte, 248) = 240 THEN 4
    ELSE 1

\* what a call of utf8_strlen leaves alone
Utf8Frame ==
    UNCHANGED <<entries, num_lines, max_lines, scroll_value, viewport, font,
                scrollbar, prompt, input_q, completed, inf_cast, appended,
                dangling, crashed, scen, wrapVars, selVars, sigVars, dispVars,
                lineVars>>

\* utf8_strlen(str) is called: count = 0, i = 0
Utf8StrlenCall(str) ==
    /\ utf_pc = "none"
    /\ utf_str' = str
    /\ utf_i' = 0
    /\ utf_count' = 0
    /\ utf_pc' = "loop"
    /\ utf_past' = FALSE
    /\ Utf8Frame

\* one test of while (str[i]) and, the byte not being 0, one pass of the
\* loop. str[i] is a byte of the string, its NUL at i = length, and behind
\* the NUL whatever the memory holds
Utf8StrlenStep ==
    /\ utf_pc = "loop"
    /\ utf_i <= Len(utf_str) + MaxPast
    /\ \E byte \in IF utf_i < Len(utf_str) THEN {utf_str[utf_i + 1]}
                   ELSE IF utf_i = Len(utf_str) THEN {0}
                   ELSE Utf8Bytes \cup {0} :
          /\ utf_past' = (utf_past \/ utf_i > Len(utf_str))
          /\ IF byte = 0
             THEN /\ utf_pc' = "done"
                  /\ UNCHANGED <<utf_i, utf_count>>
             ELSE /\ utf_i' = utf_i + utf8_advance(byte)
                  /\ utf_count' = utf_count + 1
                  /\ utf_pc' = "loop"
    /\ UNCHANGED utf_str
    /\ Utf8Frame

NextUtf8 ==
    \/ \E str \in Utf8Strings : Utf8StrlenCall(str)
    \/ Utf8StrlenStep

SpecUtf8 == InitOneBuild /\ [][NextUtf8]_vars

(***************************************************************************)
(* Properties of utf8_strlen (SpecUtf8)                                    *)
(***************************************************************************)
\* a continuation byte of UTF-8: 10xxxxxx
is_continuation(byte) == 128 <= byte /\ byte < 192

\* the length of the sequence a byte leads in UTF-8, 0 for a byte that leads none
sequence_length(byte) ==
    IF byte < 128 THEN 1
    ELSE IF 192 <= byte /\ byte < 224 THEN 2
    ELSE IF 224 <= byte /\ byte < 240 THEN 3
    ELSE IF 240 <= byte /\ byte < 248 THEN 4
    ELSE 0

RECURSIVE well_formed(_)
\* every lead byte is followed by the continuation bytes of its sequence
well_formed(bytes) ==
    \/ bytes = <<>>
    \/ LET n == sequence_length(Head(bytes))
       IN  /\ n > 0
           /\ n <= Len(bytes)
           /\ \A k \in 2..n : is_continuation(bytes[k])
           /\ well_formed(SubSeq(bytes, n + 1, Len(bytes)))

\* the code points of a well-formed string: one for each sequence
code_points(bytes) ==
    Cardinality({k \in DOMAIN bytes : ~is_continuation(bytes[k])})

\* C40: on every NUL-terminated byte string, also one that ends in a
\* truncated multi-byte sequence, utf8_strlen reads no byte past the
\* terminating NUL, and on well-formed UTF-8 it returns the number of code
\* points
C40_Utf8StrlenInBounds ==
    /\ ~utf_past
    /\ (utf_pc = "done" /\ well_formed(utf_str))
          => utf_count = code_points(utf_str)
====
